---- MODULE Spec2Model ----
(***************************************************************************)
(* Model of extract_from_idml.py: transforms, page geometry, the recursive *)
(* spread walk, the per-document aggregation and the page-relative output. *)
(*                                                                         *)
(* Numbers are integers (the inputs used are integral, so the float        *)
(* arithmetic of the source is exact).  Points handed to the containment   *)
(* test are kept in half units (twice the source value), because           *)
(* get_item_center divides by 2.0; the rectangle is doubled at the call.   *)
(* A string that the source splits into tokens is a sequence of tokens.    *)
(* A dict is a sequence of entries in insertion order.                     *)
(***************************************************************************)
EXTENDS Integers, Sequences, FiniteSets, TLC

\* Python None, or an absent attribute of a string-valued attribute.
None == "None"

\* ---------------------------------------------------------------------
\* Bounds of the model
\* ---------------------------------------------------------------------
\* Largest number of spread files found in the Spreads folder.
MaxSheets == 2

\* Deepest call of the walk the interpreter allows before it raises
\* RecursionError (sys.getrecursionlimit(), 1000 by default, scaled down).
RecursionLimit == 3

\* ---------------------------------------------------------------------
\* Strings of whitespace separated tokens
\* ---------------------------------------------------------------------
Tok(n) == [num |-> TRUE, val |-> n]

\* A token float() rejects.
BadTok == [num |-> FALSE, val |-> 0]

Str2(a, b) == <<Tok(a), Tok(b)>>

Str4(a, b, c, d) == <<Tok(a), Tok(b), Tok(c), Tok(d)>>

Str6(a, b, c, d, e, f) == <<Tok(a), Tok(b), Tok(c), Tok(d), Tok(e), Tok(f)>>

\* list(map(float, s.split())): raises ValueError when a token is not numeric.
FloatsRaise(s) == \E i \in 1..Len(s) : ~s[i].num

Floats(s) == [i \in 1..Len(s) |-> s[i].val]

\* ---------------------------------------------------------------------
\* Geometry and transforms
\* ---------------------------------------------------------------------
Identity == <<1, 0, 0, 1, 0, 0>>

ZeroBounds == <<0, 0, 0, 0>>

ZeroAABB == [x1 |-> 0, y1 |-> 0, x2 |-> 0, y2 |-> 0]

\* Without the test of the token count.
parse_transform_matrix_AnyCount(transform_str) ==
    IF transform_str = <<>> THEN Identity
    ELSE IF ~FloatsRaise(transform_str)
         THEN Floats(transform_str)
         ELSE Identity

parse_transform_matrix(transform_str) ==
    IF transform_str = <<>> THEN Identity
    ELSE IF ~FloatsRaise(transform_str) /\ Len(transform_str) = 6
         THEN Floats(transform_str)
         ELSE Identity

parse_geometric_bounds(bounds_str) ==
    IF bounds_str = <<>> THEN ZeroBounds
    ELSE IF ~FloatsRaise(bounds_str) /\ Len(bounds_str) = 4
         THEN Floats(bounds_str)
         ELSE ZeroBounds

\* The terms of the second column of the linear part exchanged.
multiply_matrices_Swapped(m1, m2) ==
    << m1[1]*m2[1] + m1[3]*m2[2],
       m1[2]*m2[1] + m1[4]*m2[2],
       m1[1]*m2[4] + m1[3]*m2[3],
       m1[2]*m2[3] + m1[4]*m2[4],
       m1[1]*m2[5] + m1[3]*m2[6] + m1[5],
       m1[2]*m2[5] + m1[4]*m2[6] + m1[6] >>

multiply_matrices(m1, m2) ==
    << m1[1]*m2[1] + m1[3]*m2[2],
       m1[2]*m2[1] + m1[4]*m2[2],
       m1[1]*m2[3] + m1[3]*m2[4],
       m1[2]*m2[3] + m1[4]*m2[4],
       m1[1]*m2[5] + m1[3]*m2[6] + m1[5],
       m1[2]*m2[5] + m1[4]*m2[6] + m1[6] >>

\* The linear part alone: the translation (tx, ty) is left out.
apply_transform_to_point_NoTranslation(x, y, matrix) ==
    << matrix[1]*x + matrix[3]*y, matrix[2]*x + matrix[4]*y >>

apply_transform_to_point(x, y, matrix) ==
    << matrix[1]*x + matrix[3]*y + matrix[5],
       matrix[2]*x + matrix[4]*y + matrix[6] >>

\* local_bounds is (y1, x1, y2, x2).
get_global_corners(local_bounds, item_global_matrix) ==
    << apply_transform_to_point(local_bounds[2], local_bounds[1], item_global_matrix),
       apply_transform_to_point(local_bounds[4], local_bounds[1], item_global_matrix),
       apply_transform_to_point(local_bounds[2], local_bounds[3], item_global_matrix),
       apply_transform_to_point(local_bounds[4], local_bounds[3], item_global_matrix) >>

SetMin(S) == CHOOSE m \in S : \A n \in S : m <= n

SetMax(S) == CHOOSE m \in S : \A n \in S : m >= n

get_axis_aligned_bounding_box(corners) ==
    IF corners = <<>> THEN ZeroAABB
    ELSE LET all_x == {corners[i][1] : i \in 1..Len(corners)}
             all_y == {corners[i][2] : i \in 1..Len(corners)}
         IN  [x1 |-> SetMin(all_x), y1 |-> SetMin(all_y),
              x2 |-> SetMax(all_x), y2 |-> SetMax(all_y)]

\* The corner (x1, y1) stands for the centre.
get_item_center_Corner(global_aabb) ==
    << 2 * global_aabb.x1, 2 * global_aabb.y1 >>

\* The centre in half units: <<2*cx, 2*cy>>.
get_item_center(global_aabb) ==
    << global_aabb.x1 + global_aabb.x2, global_aabb.y1 + global_aabb.y2 >>

\* Containment with the edges left out.
is_point_in_rect_Open(px, py, rect_y1, rect_x1, rect_y2, rect_x2) ==
    (rect_x1 < px /\ px < rect_x2) /\ (rect_y1 < py /\ py < rect_y2)

is_point_in_rect(px, py, rect_y1, rect_x1, rect_y2, rect_x2) ==
    (rect_x1 <= px /\ px <= rect_x2) /\ (rect_y1 <= py /\ py <= rect_y2)

\* The page box under the page's own transform alone (as in test_box.py).
PageGeometricInfo_LocalOnly(self_id, name, page_local_transform_str, page_local_bounds_str, spread_base_transform_matrix) ==
    LET page_local_matrix == parse_transform_matrix(page_local_transform_str)
        local_bounds == parse_geometric_bounds(page_local_bounds_str)
    IN  [id |-> self_id, name |-> name, local_bounds |-> local_bounds,
         global_matrix |-> page_local_matrix,
         global_aabb |-> get_axis_aligned_bounding_box(
                             get_global_corners(local_bounds, page_local_matrix))]

PageGeometricInfo(self_id, name, page_local_transform_str, page_local_bounds_str, spread_base_transform_matrix) ==
    LET page_local_matrix == parse_transform_matrix(page_local_transform_str)
        local_bounds == parse_geometric_bounds(page_local_bounds_str)
        global_matrix == multiply_matrices(spread_base_transform_matrix, page_local_matrix)
    IN  [id |-> self_id, name |-> name, local_bounds |-> local_bounds,
         global_matrix |-> global_matrix,
         global_aabb |-> get_axis_aligned_bounding_box(
                             get_global_corners(local_bounds, global_matrix))]

\* Index of the first page whose box contains the point (0 when none);
\* the point is in half units, so the box is doubled.
RECURSIVE FirstMatch(_, _, _, _)
FirstMatch(cx2, cy2, geometric_pages, i) ==
    IF i > Len(geometric_pages) THEN 0
    ELSE IF is_point_in_rect(cx2, cy2,
                             2 * geometric_pages[i].global_aabb.y1,
                             2 * geometric_pages[i].global_aabb.x1,
                             2 * geometric_pages[i].global_aabb.y2,
                             2 * geometric_pages[i].global_aabb.x2)
         THEN i
         ELSE FirstMatch(cx2, cy2, geometric_pages, i + 1)

\* The scan does not stop at the first match: the last match wins.
find_page_for_item_center_LastMatch(cx2, cy2, geometric_pages) ==
    LET holders == {i \in 1..Len(geometric_pages) :
                       is_point_in_rect(cx2, cy2,
                                        2 * geometric_pages[i].global_aabb.y1,
                                        2 * geometric_pages[i].global_aabb.x1,
                                        2 * geometric_pages[i].global_aabb.y2,
                                        2 * geometric_pages[i].global_aabb.x2)}
    IN  IF holders = {} THEN None ELSE geometric_pages[SetMax(holders)].id

find_page_for_item_center(cx2, cy2, geometric_pages) ==
    LET i == FirstMatch(cx2, cy2, geometric_pages, 1)
    IN  IF i = 0 THEN None ELSE geometric_pages[i].id

\* The anchors of one PathPointArray that parse to two coordinates.
GoodAnchors(path_point_array) ==
    {i \in 1..Len(path_point_array) :
        /\ path_point_array[i] # <<>>
        /\ ~FloatsRaise(path_point_array[i])
        /\ Len(path_point_array[i]) = 2}

\* <<>> stands for the None the source returns.
get_local_bounds_from_path_geometry(tf_element) ==
    IF tf_element.PathPointArrays = <<>> THEN <<>>
    ELSE LET path_point_array == tf_element.PathPointArrays[1]
             good == GoodAnchors(path_point_array)
             all_x == {path_point_array[i][1].val : i \in good}
             all_y == {path_point_array[i][2].val : i \in good}
         IN  IF good = {} THEN <<>>
             ELSE <<SetMin(all_y), SetMin(all_x), SetMax(all_y), SetMax(all_x)>>

\* ---------------------------------------------------------------------
\* XML elements, spread files and story files (the inputs)
\* ---------------------------------------------------------------------
\* An element: its tag, its attributes (None or <<>> when absent), the
\* nested properties the walker looks up with find(), and the ids of its
\* direct children in the node table of its spread file.
\*   GraphicBounds  : <<>> when there is no Properties/GraphicBounds,
\*                    else the tokens of Left, Top, Right, Bottom
\*   PathPointArrays: the PathPointArray elements in document order, each
\*                    a sequence of Anchor strings
\*   Link           : None when there is no Link descendant, else its
\*                    LinkResourceURI ("" when that attribute is missing)
El(tag, self) ==
    [tag |-> tag, Self |-> self, Name |-> None, ItemTransform |-> <<>>,
     GeometricBounds |-> <<>>, GraphicBounds |-> <<>>, PathPointArrays |-> <<>>,
     ParentStory |-> None, Link |-> None, children |-> <<>>]

Page(self, name, transform, bounds) ==
    [El("Page", self) EXCEPT !.Name = name, !.ItemTransform = transform,
                             !.GeometricBounds = bounds]

TextFrame(self, story, transform, bounds) ==
    [El("TextFrame", self) EXCEPT !.ParentStory = story, !.ItemTransform = transform,
                                  !.GeometricBounds = bounds]

Image(self, uri, transform, graphic_bounds) ==
    [El("Image", self) EXCEPT !.Link = uri, !.ItemTransform = transform,
                              !.GraphicBounds = graphic_bounds]

Container(tag, self, transform, bounds, children) ==
    [El(tag, self) EXCEPT !.ItemTransform = transform, !.GeometricBounds = bounds,
                          !.children = children]

\* The story files of the Stories folder and their flattened text
\* (what get_story_text returns); a story id outside has no file.
StoryFiles == {"s1", "s2", "s3"}

get_story_text(story_id) ==
    CASE story_id = "s1" -> "Hello"
      [] story_id = "s2" -> "World"
      [] OTHER -> ""

\* A spread file: wellformed is FALSE when ET.parse raises; the record
\* is the Spread element the search of lines 206-212 settles on (or the
\* root when none has Page children).
SheetOf(self, transform, children, nodes) ==
    [wellformed |-> TRUE, Self |-> self, ItemTransform |-> transform,
     children |-> children, nodes |-> nodes]

Malformed ==
    [wellformed |-> FALSE, Self |-> None, ItemTransform |-> <<>>,
     children |-> <<>>, nodes |-> <<>>]

\* Two pages side by side sharing the edge x = 10, a text frame, a
\* rectangle centred on the shared edge holding an image, a group with
\* no bounds holding an image without Self, and an image off every page.
SheetA(base) ==
    SheetOf("SpreadA", base, <<1, 2, 3, 4, 5, 8, 10>>,
      << Page("P1", "1", <<>>, Str4(0, 0, 10, 10)),
         Page("P2", "2", Str6(1, 0, 0, 1, 10, 0), Str4(0, 0, 10, 10)),
         El("Properties", None),
         TextFrame("tf1", "s1", <<>>, Str4(0, 0, 3, 3)),
         Container("Rectangle", "r1", Str6(1, 0, 0, 1, 8, 0), Str4(0, 0, 4, 4), <<6, 7>>),
         El("Properties", None),
         Image("im1", "a.png", <<>>, Str4(0, 0, 4, 4)),
         Container("Group", "g1", Str6(1, 0, 0, 1, 12, 2), <<>>, <<9>>),
         Image(None, "b.png", <<>>, Str4(0, 0, 2, 2)),
         Image("im3", "c.png", Str6(1, 0, 0, 1, 30, 30), Str4(0, 0, 2, 2)) >>)

\* Page P1 again under another name and transform, with the image key
\* (a.png, im1) and the frame id tf1 of SheetA (now on story s2), a new
\* image, a frame whose story is empty and one whose story has no file,
\* and a page without Self.
SheetB(base) ==
    SheetOf("SpreadB", base, <<1, 2, 3, 4, 5, 6, 7, 8, 9>>,
      << Page("P1", "1b", Str6(1, 0, 0, 1, 2, 0), Str4(0, 0, 10, 10)),
         Page(None, "3", <<>>, Str4(0, 0, 50, 50)),
         Page("P3", None, Str6(1, 0, 0, 1, 20, 0), Str4(0, 0, 10, 10)),
         Image("im1", "a.png", Str6(1, 0, 0, 1, 4, 4), Str4(0, 0, 2, 2)),
         TextFrame("tf1", "s2", Str6(1, 0, 0, 1, 4, 4), Str4(0, 0, 2, 2)),
         Image("im2", "b.png", Str6(1, 0, 0, 1, 6, 6), Str4(0, 0, 2, 2)),
         TextFrame("tf3", "s3", Str6(1, 0, 0, 1, 4, 4), Str4(0, 0, 2, 2)),
         TextFrame("tf4", "s4", Str6(1, 0, 0, 1, 4, 4), Str4(0, 0, 2, 2)),
         Image(None, "b.png", Str6(1, 0, 0, 1, 24, 4), Str4(0, 0, 2, 2)) >>)

\* A Spread element without Page children.
SheetNoPage ==
    SheetOf("SpreadC", <<>>, <<1>>,
      << Image("im1", "a.png", <<>>, Str4(0, 0, 2, 2)) >>)

\* A Spread whose only Page has no Self.
SheetNoSelf ==
    SheetOf("SpreadD", <<>>, <<1, 2>>,
      << Page(None, "1", <<>>, Str4(0, 0, 10, 10)),
         Image("im1", "a.png", <<>>, Str4(0, 0, 2, 2)) >>)

\* The end-to-end scenario: a page of 800 x 600 moved by (100, 50), an
\* image with bounds (0,0,50,50) and no transform, the same image moved
\* by (100, 50), and a text frame inside the page.
SheetE ==
    SheetOf("SpreadE", <<>>, <<1, 2, 3, 4>>,
      << Page("PE", "3", Str6(1, 0, 0, 1, 100, 50), Str4(0, 0, 600, 800)),
         Image("imE0", "e0.png", Str6(1, 0, 0, 1, 0, 0), Str4(0, 0, 50, 50)),
         Image("imE1", "e1.png", Str6(1, 0, 0, 1, 100, 50), Str4(0, 0, 50, 50)),
         TextFrame("tfE", "s1", Str6(1, 0, 0, 1, 100, 50), Str4(10, 10, 100, 200)) >>)

Translate35 == Str6(1, 0, 0, 1, 3, 5)

TextFramePath(self, story, transform, path_point_arrays) ==
    [El("TextFrame", self) EXCEPT !.ParentStory = story, !.ItemTransform = transform,
                                  !.PathPointArrays = path_point_arrays]

\* One page and a Group holding a Rectangle holding two images with the
\* same key, then: two text frames without Self on different stories
\* (the first inside the Group, with path geometry), an image with no
\* bounds at all, an image without Link, an image whose Link has no
\* URI, an image with the URI of the first under another id, a frame
\* on a story already read, a frame without story and a frame off the
\* page; then a FlattenerPreference, an element of an unlisted kind, an
\* Oval holding a Polygon, a text frame and an image, each with an image
\* below it.
SheetNested(base) ==
    SheetOf("SpreadN", base, <<1, 2, 7, 8, 9, 10, 11, 12, 13, 14, 15, 17, 19, 22, 24>>,
      << Page("PN", "2", <<>>, Str4(0, 0, 20, 20)),
         Container("Group", "gN", Str6(1, 0, 0, 1, 2, 2), <<>>, <<3, 6>>),
         Container("Rectangle", "rN", Str6(1, 0, 0, 1, 1, 0), Str4(0, 0, 4, 4), <<4, 5>>),
         Image("imN", "n.png", Str6(0, 1, -1, 0, 3, 0), Str4(0, 0, 2, 2)),
         Image("imN", "n.png", Str6(1, 0, 0, 1, 0, 1), Str4(0, 0, 2, 2)),
         TextFramePath(None, "s1", <<>>, << <<Str2(0, 0), Str2(4, 2)>> >>),
         TextFrame(None, "s2", Str6(1, 0, 0, 1, 5, 5), Str4(0, 0, 2, 2)),
         Image("imZ", "z.png", Str6(1, 0, 0, 1, 3, 3), <<>>),
         [El("Image", "imNL") EXCEPT !.GeometricBounds = Str4(0, 0, 2, 2)],
         Image("imEU", "", <<>>, Str4(0, 0, 2, 2)),
         Image("imM", "n.png", Str6(1, 0, 0, 1, 6, 1), Str4(0, 0, 2, 2)),
         TextFrame("tfS", "s1", Str6(1, 0, 0, 1, 1, 6), Str4(0, 0, 2, 2)),
         TextFrame("tfNoStory", None, Str6(1, 0, 0, 1, 1, 6), Str4(0, 0, 2, 2)),
         TextFrame("tfOff", "s2", Str6(1, 0, 0, 1, 100, 100), Str4(0, 0, 2, 2)),
         [El("FlattenerPreference", None) EXCEPT !.children = <<16>>],
         Image("imFP", "fp.png", <<>>, Str4(0, 0, 2, 2)),
         Container("GraphicLine", "gl", Str6(1, 0, 0, 1, 2, 8), Str4(0, 0, 2, 2), <<18>>),
         Image("imGL", "gl.png", <<>>, Str4(0, 0, 2, 2)),
         Container("Oval", "ov", Str6(1, 0, 0, 1, 8, 8), Str4(0, 0, 2, 2), <<20>>),
         Container("Polygon", "pg", <<>>, Str4(0, 0, 2, 2), <<21>>),
         Image("imOv", "ov.png", <<>>, Str4(0, 0, 2, 2)),
         [TextFrame("tfKids", "s2", Str6(1, 0, 0, 1, 4, 8), Str4(0, 0, 2, 2))
             EXCEPT !.children = <<23>>],
         Image("imInTf", "tf.png", Str6(1, 0, 0, 1, 4, 8), Str4(0, 0, 2, 2)),
         [Image("imKids", "k.png", Str6(1, 0, 0, 1, 6, 8), Str4(0, 0, 2, 2))
             EXCEPT !.children = <<25>>],
         Image("imInIm", "kk.png", Str6(1, 0, 0, 1, 6, 8), Str4(0, 0, 2, 2)) >>)

Scale2 == Str6(2, 0, 0, 2, 0, 0)

Rotate90 == Str6(0, 1, -1, 0, 0, 0)

\* One page, Groups nested one inside the other down to a depth the
\* interpreter does not allow, an image inside the innermost and an
\* image after them.
SheetDeep ==
    LET last_group == RecursionLimit + 2
    IN  SheetOf("SpreadDeep", <<>>, <<1, 2, last_group + 2>>,
          [n \in 1..(last_group + 2) |->
              IF n = 1 THEN Page("PD", "1", <<>>, Str4(0, 0, 10, 10))
              ELSE IF n <= last_group
              THEN Container("Group", "gD", <<>>, <<>>, <<n + 1>>)
              ELSE IF n = last_group + 1
              THEN Image("deep", "deep.png", <<>>, Str4(0, 0, 2, 2))
              ELSE Image("after", "after.png", <<>>, Str4(0, 0, 2, 2))])

\* A page away from the origin with an image inside it, an image
\* without any bounds whose (tx, ty) is inside it, an image whose corner
\* is inside it and whose centre is not, and a text frame without
\* bounds; a second page beside it; a group off every page whose image
\* is back on the first page, and a rectangle on the first page with
\* one image on the second page and one off every page.
SheetOffset ==
    SheetOf("SpreadO", <<>>, <<1, 2, 3, 4, 5, 6, 7, 9>>,
      << Page("PO", "3", Str6(1, 0, 0, 1, 100, 50), Str4(0, 0, 60, 80)),
         Image("imO", "o.png", Str6(1, 0, 0, 1, 120, 70), Str4(0, 0, 10, 10)),
         Image("imOZ", "oz.png", Str6(1, 0, 0, 1, 110, 60), <<>>),
         Image("imOEdge", "oe.png", Str6(1, 0, 0, 1, 176, 60), Str4(0, 0, 10, 10)),
         TextFrame("tfOZ", "s1", Str6(1, 0, 0, 1, 130, 80), <<>>),
         Page("PO2", "2", Str6(1, 0, 0, 1, 200, 50), Str4(0, 0, 60, 80)),
         Container("Group", "gOff", Str6(1, 0, 0, 1, 300, 300), <<>>, <<8>>),
         Image("imBack", "back.png", Str6(1, 0, 0, 1, -170, -220), Str4(0, 0, 10, 10)),
         Container("Rectangle", "rIn", Str6(1, 0, 0, 1, 110, 90), Str4(0, 0, 10, 10), <<10, 11>>),
         Image("imNext", "next.png", Str6(1, 0, 0, 1, 100, 0), Str4(0, 0, 10, 10)),
         Image("imAway", "away.png", Str6(1, 0, 0, 1, 500, 0), Str4(0, 0, 10, 10)) >>)

Catalogue ==
    { SheetA(<<>>), SheetA(Translate35), SheetA(Scale2), SheetA(Rotate90),
      SheetB(<<>>), SheetB(Translate35),
      Malformed, SheetNoPage, SheetNoSelf, SheetE, SheetNested(Scale2),
      SheetDeep, SheetOffset }

\* Page names in the order Python compares them.
Names == <<"1", "1b", "2", "3", "UnkPage_P3">>

NameRank(name) == CHOOSE i \in 1..Len(Names) : Names[i] = name

RECURSIVE SeqsUpTo(_, _)
SeqsUpTo(S, n) ==
    IF n = 0 THEN {<<>>}
    ELSE LET shorter == SeqsUpTo(S, n - 1)
         IN  shorter \cup {Append(q, x) : q \in {r \in shorter : Len(r) = n - 1}, x \in S}

\* ---------------------------------------------------------------------
\* Dicts as sequences of entries
\* ---------------------------------------------------------------------
HasKey(d, pid) == \E i \in 1..Len(d) : d[i].pid = pid

IndexOf(d, pid) == CHOOSE i \in 1..Len(d) : d[i].pid = pid

\* The descendants of the elements ids, in document order.
RECURSIVE Descendants(_, _)
Descendants(nodes, ids) ==
    IF ids = <<>> THEN <<>>
    ELSE <<Head(ids)>> \o Descendants(nodes, nodes[Head(ids)].children)
                       \o Descendants(nodes, Tail(ids))

RECURSIVE SelectTag(_, _, _)
SelectTag(nodes, ids, tag) ==
    IF ids = <<>> THEN <<>>
    ELSE (IF nodes[Head(ids)].tag = tag THEN <<Head(ids)>> ELSE <<>>)
         \o SelectTag(nodes, Tail(ids), tag)

\* ---------------------------------------------------------------------
\* One call of process_spread_element_recursively
\* ---------------------------------------------------------------------
ElementId(element) == IF element.Self = None THEN "UnknownID" ELSE element.Self

\* The children of every element are walked.
IsContainer_AnyTag(tag) == TRUE

IsContainer(tag) == tag \in {"Group", "Rectangle", "Oval", "Polygon"}

\* Lines 141-160: the element's untransformed bounds (y1, x1, y2, x2).
determined_local_bounds(element) ==
    IF element.tag = "Image"
    THEN LET g == element.GraphicBounds
             from_gb == IF g # <<>> /\ ~FloatsRaise(g)
                        THEN <<g[2].val, g[1].val, g[4].val, g[3].val>>
                        ELSE ZeroBounds
         IN  IF from_gb = ZeroBounds
             THEN IF element.GeometricBounds # <<>>
                  THEN parse_geometric_bounds(element.GeometricBounds)
                  ELSE ZeroBounds
             ELSE from_gb
    ELSE IF element.tag = "TextFrame"
    THEN LET path_gb == get_local_bounds_from_path_geometry(element)
         IN  IF path_gb # <<>> THEN path_gb
             ELSE IF element.GeometricBounds # <<>>
                  THEN parse_geometric_bounds(element.GeometricBounds)
                  ELSE ZeroBounds
    ELSE parse_geometric_bounds(element.GeometricBounds)

\* extract_box.py lines 223-241: the centre the page assignment gets, in
\* half units; a Group has its box computed whatever its bounds are.
extract_box_center(element_tag_local, item_local_bounds, item_global_matrix) ==
    IF item_local_bounds # ZeroBounds \/ element_tag_local \in {"Group"}
    THEN get_item_center(
             get_axis_aligned_bounding_box(
                 get_global_corners(item_local_bounds, item_global_matrix)))
    ELSE <<2 * item_global_matrix[5], 2 * item_global_matrix[6]>>

\* An element without bounds is given the origin as its centre.
VisitLocals_OriginDefault(element, current_accumulated_matrix, geometric_pages) ==
    LET item_local_matrix == parse_transform_matrix(element.ItemTransform)
        item_global_matrix == multiply_matrices(current_accumulated_matrix, item_local_matrix)
        bounds == determined_local_bounds(element)
        item_global_aabb ==
            IF bounds # ZeroBounds
            THEN get_axis_aligned_bounding_box(get_global_corners(bounds, item_global_matrix))
            ELSE ZeroAABB
        center == IF bounds # ZeroBounds
                  THEN get_item_center(item_global_aabb)
                  ELSE <<0, 0>>
    IN  [tag |-> element.tag,
         element_id |-> ElementId(element),
         current_accumulated_matrix |-> current_accumulated_matrix,
         item_local_matrix |-> item_local_matrix,
         item_global_matrix |-> item_global_matrix,
         determined_local_bounds |-> bounds,
         item_global_aabb |-> item_global_aabb,
         center |-> center,
         assigned_page_id |->
             find_page_for_item_center(center[1], center[2], geometric_pages)]

\* Lines 136-170: the locals of the call up to the page assignment.
\* The centre is in half units.
VisitLocals(element, current_accumulated_matrix, geometric_pages) ==
    LET item_local_matrix == parse_transform_matrix(element.ItemTransform)
        item_global_matrix == multiply_matrices(current_accumulated_matrix, item_local_matrix)
        bounds == determined_local_bounds(element)
        item_global_aabb ==
            IF bounds # ZeroBounds
            THEN get_axis_aligned_bounding_box(get_global_corners(bounds, item_global_matrix))
            ELSE ZeroAABB
        center == IF bounds # ZeroBounds
                  THEN get_item_center(item_global_aabb)
                  ELSE <<2 * item_global_matrix[5], 2 * item_global_matrix[6]>>
    IN  [tag |-> element.tag,
         element_id |-> ElementId(element),
         current_accumulated_matrix |-> current_accumulated_matrix,
         item_local_matrix |-> item_local_matrix,
         item_global_matrix |-> item_global_matrix,
         determined_local_bounds |-> bounds,
         item_global_aabb |-> item_global_aabb,
         center |-> center,
         assigned_page_id |->
             find_page_for_item_center(center[1], center[2], geometric_pages)]

\* Line 176: the story whose file the call looks up on disk, None when
\* the cache already has the story.
StoryRead(story_cache, story_id) ==
    IF story_id \in DOMAIN story_cache THEN None ELSE story_id

\* A story without a file leaves no entry in the cache.
CacheStory_SkipMissing(story_cache, story_id) ==
    IF story_id \in DOMAIN story_cache \/ story_id \notin StoryFiles THEN story_cache
    ELSE (story_id :> get_story_text(story_id)) @@ story_cache

\* Lines 176-179: the story cache after the lookup of story_id.
CacheStory(story_cache, story_id) ==
    IF story_id \in DOMAIN story_cache THEN story_cache
    ELSE (story_id :> (IF story_id \in StoryFiles THEN get_story_text(story_id) ELSE ""))
         @@ story_cache

TextSeen(texts, element_id) ==
    \E i \in 1..Len(texts) : texts[i].text_frame_id = element_id

\* Lines 172-188: the page content map after the visit of a TextFrame.
VisitTextFrame(element, loc, pages_content_map, story_cache) ==
    LET story_id == element.ParentStory
        pid == loc.assigned_page_id
    IN  IF pid # None /\ story_id # None /\ story_id # "" /\ HasKey(pages_content_map, pid)
        THEN LET cache == CacheStory(story_cache, story_id)
                 tc == IF story_id \in DOMAIN cache THEN cache[story_id] ELSE ""
                 k == IndexOf(pages_content_map, pid)
                 pd == pages_content_map[k]
             IN  IF ~TextSeen(pd.texts, loc.element_id) /\ tc # ""
                 THEN [pages_content_map EXCEPT ![k].texts =
                          Append(@, [story_id |-> story_id,
                                     text_frame_id |-> loc.element_id,
                                     content |-> tc,
                                     global_bounds |-> loc.item_global_aabb,
                                     item_transform |-> element.ItemTransform])]
                 ELSE pages_content_map
        ELSE pages_content_map

\* An image counts as seen when its URI alone is in the list.
ImageSeen_UriOnly(images, uri, element_id) ==
    \E i \in 1..Len(images) : images[i].uri = uri

ImageSeen(images, uri, element_id) ==
    \E i \in 1..Len(images) :
        images[i].uri = uri /\ images[i].image_element_id = element_id

\* The image goes to the first page of the map, not to the assigned one.
VisitImage_FirstPage(element, parent_tag, parent_self, loc, pages_content_map) ==
    LET uri == element.Link
    IN  IF loc.assigned_page_id # None /\ uri # None /\ uri # ""
        THEN [pages_content_map EXCEPT ![1].images =
                 Append(@, [uri |-> uri,
                            image_element_id |-> loc.element_id,
                            container_element_tag |-> parent_tag,
                            container_element_id |->
                                IF parent_self = None THEN "Unk" ELSE parent_self,
                            global_bounds |-> loc.item_global_aabb,
                            item_transform |-> element.ItemTransform])]
        ELSE pages_content_map

\* Lines 189-200: the page content map after the visit of an Image.
VisitImage(element, parent_tag, parent_self, loc, pages_content_map) ==
    LET uri == element.Link
        pid == loc.assigned_page_id
    IN  IF pid # None /\ uri # None /\ uri # "" /\ HasKey(pages_content_map, pid)
        THEN LET k == IndexOf(pages_content_map, pid)
                 pd == pages_content_map[k]
             IN  IF ~ImageSeen(pd.images, uri, loc.element_id)
                 THEN [pages_content_map EXCEPT ![k].images =
                          Append(@, [uri |-> uri,
                                     image_element_id |-> loc.element_id,
                                     container_element_tag |-> parent_tag,
                                     container_element_id |->
                                         IF parent_self = None THEN "Unk" ELSE parent_self,
                                     global_bounds |-> loc.item_global_aabb,
                                     item_transform |-> element.ItemTransform])]
                 ELSE pages_content_map
        ELSE pages_content_map

\* The children are called with the local transform of their parent.
ChildFrames_ParentLocal(element, node, item_global_matrix, depth) ==
    IF IsContainer(element.tag)
    THEN [i \in 1..Len(element.children) |->
             [node |-> element.children[i], parent |-> node,
              acc |-> parse_transform_matrix(element.ItemTransform), depth |-> depth + 1]]
    ELSE <<>>

\* Lines 201-202: the calls for the children, first child on top.
ChildFrames(element, node, item_global_matrix, depth) ==
    IF IsContainer(element.tag)
    THEN [i \in 1..Len(element.children) |->
             [node |-> element.children[i], parent |-> node,
              acc |-> item_global_matrix, depth |-> depth + 1]]
    ELSE <<>>

\* ---------------------------------------------------------------------
\* get_page_content_from_spread, up to the walk
\* ---------------------------------------------------------------------
HasPageChild(sheet) ==
    \E i \in 1..Len(sheet.children) : sheet.nodes[sheet.children[i]].tag = "Page"

\* The page box is the page's local bounds, its transform left out.
test_box_PageGeometricInfo_NoTransform(self_id, name, page_matrix_str, page_bounds_str) ==
    LET local_bounds == parse_geometric_bounds(page_bounds_str)
    IN  [id |-> self_id, name |-> name, matrix |-> Identity, local_bounds |-> local_bounds,
         global_aabb |->
             get_axis_aligned_bounding_box(get_global_corners(local_bounds, Identity))]

\* test_box.py lines 55-62: the page box comes from the page's own
\* transform; the constructor is not given the spread base.
test_box_PageGeometricInfo(self_id, name, page_matrix_str, page_bounds_str) ==
    LET matrix == parse_transform_matrix(page_matrix_str)
        local_bounds == parse_geometric_bounds(page_bounds_str)
    IN  [id |-> self_id, name |-> name, matrix |-> matrix, local_bounds |-> local_bounds,
         global_aabb |->
             get_axis_aligned_bounding_box(get_global_corners(local_bounds, matrix))]

\* test_box.py lines 259-266: the PageGeometricInfo list and the empty
\* content map.
RECURSIVE test_box_BuildPages(_, _, _)
test_box_BuildPages(nodes, page_ids, acc) ==
    IF page_ids = <<>> THEN acc
    ELSE LET page_el == nodes[Head(page_ids)]
             pid == page_el.Self
             name == IF page_el.Name = None THEN "UnkPage_" \o pid ELSE page_el.Name
         IN  IF pid = None \/ pid = ""
             THEN test_box_BuildPages(nodes, Tail(page_ids), acc)
             ELSE test_box_BuildPages(nodes, Tail(page_ids),
                    [geometric_pages |->
                        Append(acc.geometric_pages,
                               test_box_PageGeometricInfo(pid, name, page_el.ItemTransform,
                                                          page_el.GeometricBounds)),
                     content |->
                        IF HasKey(acc.content, pid) THEN acc.content
                        ELSE Append(acc.content,
                                    [pid |-> pid, name |-> name,
                                     images |-> <<>>, texts |-> <<>>])])

\* Each page goes to the front of the page list.
RECURSIVE BuildPages_Prepend(_, _, _, _)
BuildPages_Prepend(nodes, page_ids, spread_base_matrix, acc) ==
    IF page_ids = <<>> THEN acc
    ELSE LET page_el == nodes[Head(page_ids)]
             pid == page_el.Self
             name == IF page_el.Name = None THEN "UnkPage_" \o pid ELSE page_el.Name
         IN  IF pid = None \/ pid = ""
             THEN BuildPages_Prepend(nodes, Tail(page_ids), spread_base_matrix, acc)
             ELSE BuildPages_Prepend(nodes, Tail(page_ids), spread_base_matrix,
                    [geometric_pages |->
                        <<PageGeometricInfo(pid, name, page_el.ItemTransform,
                                            page_el.GeometricBounds, spread_base_matrix)>>
                        \o acc.geometric_pages,
                     content |->
                        IF HasKey(acc.content, pid) THEN acc.content
                        ELSE Append(acc.content,
                                    [pid |-> pid, name |-> name,
                                     images |-> <<>>, texts |-> <<>>])])

\* Lines 221-228: the PageGeometricInfo list and the empty content map.
RECURSIVE BuildPages(_, _, _, _)
BuildPages(nodes, page_ids, spread_base_matrix, acc) ==
    IF page_ids = <<>> THEN acc
    ELSE LET page_el == nodes[Head(page_ids)]
             pid == page_el.Self
             name == IF page_el.Name = None THEN "UnkPage_" \o pid ELSE page_el.Name
         IN  IF pid = None \/ pid = ""
             THEN BuildPages(nodes, Tail(page_ids), spread_base_matrix, acc)
             ELSE BuildPages(nodes, Tail(page_ids), spread_base_matrix,
                    [geometric_pages |->
                        Append(acc.geometric_pages,
                               PageGeometricInfo(pid, name, page_el.ItemTransform,
                                                 page_el.GeometricBounds, spread_base_matrix)),
                     content |->
                        IF HasKey(acc.content, pid) THEN acc.content
                        ELSE Append(acc.content,
                                    [pid |-> pid, name |-> name,
                                     images |-> <<>>, texts |-> <<>>])])

\* Lines 231-236: the top-level calls, first child on top.
RECURSIVE TopFrames(_, _, _)
TopFrames(sheet, ids, spread_base_matrix) ==
    IF ids = <<>> THEN <<>>
    ELSE (IF sheet.nodes[Head(ids)].tag \in {"Page", "FlattenerPreference", "Properties"}
          THEN <<>>
          ELSE <<[node |-> Head(ids), parent |-> 0, acc |-> spread_base_matrix, depth |-> 0]>>)
         \o TopFrames(sheet, Tail(ids), spread_base_matrix)

\* ---------------------------------------------------------------------
\* extract(): aggregation of one spread's result (lines 279-292)
\* ---------------------------------------------------------------------
\* The geometry of the spread merged last replaces the stored one.
RECURSIVE StoreGeometries_LastWins(_, _)
StoreGeometries_LastWins(all_geometries, geoinfo) ==
    IF geoinfo = <<>> THEN all_geometries
    ELSE LET page_info == Head(geoinfo)
         IN  StoreGeometries_LastWins((page_info.id :> page_info) @@ all_geometries,
                                      Tail(geoinfo))

RECURSIVE StoreGeometries(_, _)
StoreGeometries(all_geometries, geoinfo) ==
    IF geoinfo = <<>> THEN all_geometries
    ELSE LET page_info == Head(geoinfo)
         IN  StoreGeometries(
                 IF page_info.id \in DOMAIN all_geometries THEN all_geometries
                 ELSE (page_info.id :> page_info) @@ all_geometries,
                 Tail(geoinfo))

\* Every image of the spread is appended, seen before or not.
MergeImages_NoDedup(doc_images, sheet_images) == doc_images \o sheet_images

RECURSIVE MergeImages(_, _)
MergeImages(doc_images, sheet_images) ==
    IF sheet_images = <<>> THEN doc_images
    ELSE LET img_item == Head(sheet_images)
         IN  MergeImages(
                 IF ImageSeen(doc_images, img_item.uri, img_item.image_element_id)
                 THEN doc_images ELSE Append(doc_images, img_item),
                 Tail(sheet_images))

\* Every text of the spread is appended, seen before or not.
MergeTexts_NoDedup(doc_texts, sheet_texts) == doc_texts \o sheet_texts

RECURSIVE MergeTexts(_, _)
MergeTexts(doc_texts, sheet_texts) ==
    IF sheet_texts = <<>> THEN doc_texts
    ELSE LET text_item == Head(sheet_texts)
             current_tf_ids == {doc_texts[i].text_frame_id : i \in 1..Len(doc_texts)}
         IN  MergeTexts(
                 IF text_item.text_frame_id \in current_tf_ids
                 THEN doc_texts ELSE Append(doc_texts, text_item),
                 Tail(sheet_texts))

\* The name of the page follows the spread merged last.
MergePage_LastName(all_data, pdata_in_spread) ==
    IF ~HasKey(all_data, pdata_in_spread.pid) THEN Append(all_data, pdata_in_spread)
    ELSE LET k == IndexOf(all_data, pdata_in_spread.pid)
         IN  [all_data EXCEPT
                 ![k].name = pdata_in_spread.name,
                 ![k].images = MergeImages(@, pdata_in_spread.images),
                 ![k].texts = MergeTexts(@, pdata_in_spread.texts)]

MergePage(all_data, pdata_in_spread) ==
    IF ~HasKey(all_data, pdata_in_spread.pid) THEN Append(all_data, pdata_in_spread)
    ELSE LET k == IndexOf(all_data, pdata_in_spread.pid)
         IN  [all_data EXCEPT
                 ![k].images = MergeImages(@, pdata_in_spread.images),
                 ![k].texts = MergeTexts(@, pdata_in_spread.texts)]

\* The merge only appends (lines 284, 288, 292): the items past the
\* recorded ones were added by the spread at position idx.
FoundIn(found, all_data, idx) ==
    LET Grown(old, n) == old \o [i \in 1..(n - Len(old)) |-> idx]
    IN  [k \in 1..Len(all_data) |->
            LET old == IF k <= Len(found) THEN found[k]
                       ELSE [images |-> <<>>, texts |-> <<>>]
            IN  [images |-> Grown(old.images, Len(all_data[k].images)),
                 texts |-> Grown(old.texts, Len(all_data[k].texts))]]

\* A page id the document already has keeps the content it has.
RECURSIVE MergeContent_KeepExisting(_, _)
MergeContent_KeepExisting(all_data, content_from_this_spread) ==
    IF content_from_this_spread = <<>> THEN all_data
    ELSE MergeContent_KeepExisting(
             IF HasKey(all_data, Head(content_from_this_spread).pid) THEN all_data
             ELSE Append(all_data, Head(content_from_this_spread)),
             Tail(content_from_this_spread))

RECURSIVE MergeContent(_, _)
MergeContent(all_data, content_from_this_spread) ==
    IF content_from_this_spread = <<>> THEN all_data
    ELSE MergeContent(MergePage(all_data, Head(content_from_this_spread)),
                      Tail(content_from_this_spread))

\* ---------------------------------------------------------------------
\* extract(): the output (lines 328-376)
\* ---------------------------------------------------------------------
\* sorted(..., key=name): stable, so equal names keep insertion order.
RECURSIVE InsertByName(_, _)
InsertByName(sorted, entry) ==
    IF sorted = <<>> THEN <<entry>>
    ELSE IF NameRank(Head(sorted).name) <= NameRank(entry.name)
         THEN <<Head(sorted)>> \o InsertByName(Tail(sorted), entry)
         ELSE <<entry>> \o sorted

RECURSIVE SortByName(_)
SortByName(all_data) ==
    IF all_data = <<>> THEN <<>>
    ELSE InsertByName(SortByName(SubSeq(all_data, 1, Len(all_data) - 1)),
                      all_data[Len(all_data)])

\* The page origin is not subtracted.
PageRelative_NoOffset(b, page_offset_x, page_offset_y) == b

PageRelative(b, page_offset_x, page_offset_y) ==
    [x1 |-> b.x1 - page_offset_x, y1 |-> b.y1 - page_offset_y,
     x2 |-> b.x2 - page_offset_x, y2 |-> b.y2 - page_offset_y]

\* One iteration of the loop of line 332.  size is <<page_width,
\* page_height>> as left by the iterations before (<<>> while the two
\* locals are unbound); a page without stored geometry keeps it.
PageOutput(pdata, all_geometries, size) ==
    LET known == pdata.pid \in DOMAIN all_geometries
        page_global_bounds == all_geometries[pdata.pid].global_aabb
        page_offset_x == IF known THEN page_global_bounds.x1 ELSE 0
        page_offset_y == IF known THEN page_global_bounds.y1 ELSE 0
        new_size == IF known
                    THEN << page_global_bounds.x2 - page_global_bounds.x1,
                            page_global_bounds.y2 - page_global_bounds.y1 >>
                    ELSE size
        unbound == new_size = <<>> /\ (pdata.images # <<>> \/ pdata.texts # <<>>)
    IN  [raised |-> unbound,
         size |-> new_size,
         page |-> IF unbound THEN <<>>
                  ELSE [page_name |-> pdata.name,
                        page_id |-> pdata.pid,
                        images |-> [i \in 1..Len(pdata.images) |->
                            [URI |-> pdata.images[i].uri,
                             ImageId |-> pdata.images[i].image_element_id,
                             Bounds |-> PageRelative(pdata.images[i].global_bounds,
                                                     page_offset_x, page_offset_y),
                             page_width |-> new_size[1],
                             page_height |-> new_size[2]]],
                        texts |-> [i \in 1..Len(pdata.texts) |->
                            [Content |-> pdata.texts[i].content,
                             TextId |-> pdata.texts[i].text_frame_id,
                             Bounds |-> PageRelative(pdata.texts[i].global_bounds,
                                                     page_offset_x, page_offset_y),
                             page_width |-> new_size[1],
                             page_height |-> new_size[2]]]]]

RECURSIVE BuildOutput(_, _, _, _)
BuildOutput(sorted, all_geometries, size, pages) ==
    IF sorted = <<>> THEN [raised |-> FALSE, pages |-> pages]
    ELSE LET r == PageOutput(Head(sorted), all_geometries, size)
         IN  IF r.raised THEN [raised |-> TRUE, pages |-> pages]
             ELSE BuildOutput(Tail(sorted), all_geometries, r.size, Append(pages, r.page))

\* ---------------------------------------------------------------------
\* State
\* ---------------------------------------------------------------------
VARIABLES
    idml,                          \* the package: archive_ok, has_spreads_dir, spread_files
    pc,                            \* position in extract()
    temp_dir,                      \* TRUE while the temporary directory exists
    sheet_idx,                     \* index of the spread file being processed
    geometric_pages,               \* of the current spread
    current_spread_pages_content,  \* of the current spread
    returned,                      \* what get_page_content_from_spread returns
    stack,                         \* pending calls of the walk, next call first
    last_visit,                    \* locals of the latest call of the walk, if any
    story_cache,
    all_page_data_by_id,
    all_page_geometries,
    output_data,                   \* output_data["pages"]
    written,                       \* TRUE once json.dump has written the file
    calc,                          \* the latest direct call of a matrix helper
    visited,                       \* the nodes the walk of the current spread was called on
    found_in,                      \* per item of the document map, the spread that added it
    test_box_run                   \* test_box.py on the same spread file: geometric_pages,
                                   \* current_spread_pages_content, story_cache

vars == <<idml, pc, temp_dir, sheet_idx, geometric_pages, current_spread_pages_content,
          returned, stack, last_visit, story_cache, all_page_data_by_id,
          all_page_geometries, output_data, written, calc, visited, found_in,
          test_box_run>>

\* No helper has been called directly.
NoCalc == [op |-> "none"]

CurrentSheet == idml.spread_files[sheet_idx]

Init ==
    /\ idml \in [archive_ok : BOOLEAN, has_spreads_dir : BOOLEAN,
                 spread_files : SeqsUpTo(Catalogue, MaxSheets)]
    /\ idml.archive_ok \/ (~idml.has_spreads_dir /\ idml.spread_files = <<>>)
    /\ idml.has_spreads_dir \/ idml.spread_files = <<>>
    /\ pc = "extract_idml"
    /\ temp_dir = TRUE
    /\ sheet_idx = 0
    /\ geometric_pages = <<>>
    /\ current_spread_pages_content = <<>>
    /\ returned = "nothing"
    /\ stack = <<>>
    /\ last_visit = <<>>
    /\ story_cache = <<>>
    /\ all_page_data_by_id = <<>>
    /\ all_page_geometries = <<>>
    /\ output_data = <<>>
    /\ written = FALSE
    /\ calc = NoCalc
    /\ visited = <<>>
    /\ found_in = <<>>
    /\ test_box_run = [geometric_pages |-> <<>>, current_spread_pages_content |-> <<>>,
                       story_cache |-> <<>>]

\* ---------------------------------------------------------------------
\* Actions
\* ---------------------------------------------------------------------
walk_vars == <<geometric_pages, current_spread_pages_content, returned, stack, last_visit,
               visited, test_box_run>>

doc_vars == <<all_page_data_by_id, all_page_geometries, found_in>>

\* Lines 258-260: extract_idml; on failure the directory is removed.
ExtractIdml ==
    /\ pc = "extract_idml"
    /\ IF idml.archive_ok
       THEN pc' = "check_spreads" /\ UNCHANGED temp_dir
       ELSE pc' = "done" /\ temp_dir' = FALSE
    /\ UNCHANGED <<idml, calc, sheet_idx, story_cache, output_data, written>>
    /\ UNCHANGED walk_vars /\ UNCHANGED doc_vars

\* Lines 261-265.
CheckSpreadsDir ==
    /\ pc = "check_spreads"
    /\ IF idml.has_spreads_dir
       THEN pc' = "find_spread_files" /\ UNCHANGED temp_dir
       ELSE pc' = "done" /\ temp_dir' = FALSE
    /\ UNCHANGED <<idml, calc, sheet_idx, story_cache, output_data, written>>
    /\ UNCHANGED walk_vars /\ UNCHANGED doc_vars

\* Lines 266-273.
FindSpreadFiles ==
    /\ pc = "find_spread_files"
    /\ IF idml.spread_files # <<>>
       THEN pc' = "loop" /\ UNCHANGED temp_dir
       ELSE pc' = "done" /\ temp_dir' = FALSE
    /\ UNCHANGED <<idml, calc, sheet_idx, story_cache, output_data, written>>
    /\ UNCHANGED walk_vars /\ UNCHANGED doc_vars

\* Lines 274-277 and 204-236: the call of get_page_content_from_spread
\* for the next spread file, up to the first call of the walk.  returned
\* is "pair" for a (content, pages) tuple and "dict" for a bare {}.
GetPageContent ==
    /\ pc = "loop"
    /\ sheet_idx < Len(idml.spread_files)
    /\ sheet_idx' = sheet_idx + 1
    /\ last_visit' = <<>>
    /\ visited' = <<>>
    /\ LET sheet == idml.spread_files[sheet_idx + 1]
           spread_base_matrix == parse_transform_matrix(sheet.ItemTransform)
           built == BuildPages(sheet.nodes,
                               SelectTag(sheet.nodes,
                                         Descendants(sheet.nodes, sheet.children), "Page"),
                               spread_base_matrix,
                               [geometric_pages |-> <<>>, content |-> <<>>])
           frames == TopFrames(sheet, sheet.children, spread_base_matrix)
           test_box_built ==
               test_box_BuildPages(sheet.nodes,
                                   SelectTag(sheet.nodes,
                                             Descendants(sheet.nodes, sheet.children), "Page"),
                                   [geometric_pages |-> <<>>, content |-> <<>>])
           test_box_fails == \/ ~sheet.wellformed
                             \/ ~HasPageChild(sheet)
                             \/ test_box_built.geometric_pages = <<>>
       IN  /\ test_box_run' =
                 [test_box_run EXCEPT
                     !.geometric_pages =
                         IF test_box_fails THEN <<>> ELSE test_box_built.geometric_pages,
                     !.current_spread_pages_content =
                         IF test_box_fails THEN <<>> ELSE test_box_built.content]
           /\ IF ~sheet.wellformed
              THEN /\ returned' = "pair"
                   /\ geometric_pages' = <<>>
                   /\ current_spread_pages_content' = <<>>
                   /\ stack' = <<>>
                   /\ pc' = "merge"
              ELSE IF ~HasPageChild(sheet) \/ built.geometric_pages = <<>>
              THEN /\ returned' = "dict"
                   /\ geometric_pages' = <<>>
                   /\ current_spread_pages_content' = <<>>
                   /\ stack' = <<>>
                   /\ pc' = "merge"
              ELSE /\ returned' = "pair"
                   /\ geometric_pages' = built.geometric_pages
                   /\ current_spread_pages_content' = built.content
                   /\ stack' = frames
                   /\ pc' = IF frames = <<>> THEN "merge" ELSE "walk"
    /\ UNCHANGED <<idml, calc, temp_dir, story_cache, output_data, written>>
    /\ UNCHANGED doc_vars

\* Lines 128-202: one call of process_spread_element_recursively; the
\* calls for the children are made next, before those still pending.
VisitElement ==
    /\ pc = "walk"
    /\ stack # <<>>
    /\ Head(stack).depth <= RecursionLimit
    /\ LET frame == Head(stack)
           sheet == CurrentSheet
           element == sheet.nodes[frame.node]
           parent_tag == IF frame.parent = 0 THEN "Spread"
                         ELSE sheet.nodes[frame.parent].tag
           parent_self == IF frame.parent = 0 THEN sheet.Self
                          ELSE sheet.nodes[frame.parent].Self
           loc == VisitLocals(element, frame.acc, geometric_pages)
           story_id == element.ParentStory
           reads == /\ element.tag = "TextFrame"
                    /\ loc.assigned_page_id # None
                    /\ story_id # None /\ story_id # ""
           test_box_loc == VisitLocals(element, frame.acc, test_box_run.geometric_pages)
           test_box_reads == /\ element.tag = "TextFrame"
                             /\ test_box_loc.assigned_page_id # None
                             /\ story_id # None /\ story_id # ""
       IN  /\ test_box_run' =
                 [test_box_run EXCEPT
                     !.story_cache =
                         IF test_box_reads THEN CacheStory(@, story_id) ELSE @,
                     !.current_spread_pages_content =
                         IF element.tag = "TextFrame"
                         THEN VisitTextFrame(element, test_box_loc, @, test_box_run.story_cache)
                         ELSE IF element.tag = "Image"
                         THEN VisitImage(element, parent_tag, parent_self, test_box_loc, @)
                         ELSE @]
           /\ last_visit' = << [loc EXCEPT !.tag = element.tag] @@
                               [node |-> frame.node, parent |-> frame.parent,
                                depth |-> frame.depth,
                                story_read |-> IF reads THEN StoryRead(story_cache, story_id)
                                               ELSE None] >>
           /\ story_cache' =
                 IF reads
                 THEN CacheStory(story_cache, story_id)
                 ELSE story_cache
           /\ current_spread_pages_content' =
                 IF element.tag = "TextFrame"
                 THEN VisitTextFrame(element, loc, current_spread_pages_content, story_cache)
                 ELSE IF element.tag = "Image"
                 THEN VisitImage(element, parent_tag, parent_self, loc,
                                 current_spread_pages_content)
                 ELSE current_spread_pages_content
           /\ visited' = Append(visited, frame.node)
           /\ stack' = ChildFrames(element, frame.node, loc.item_global_matrix, frame.depth)
                       \o Tail(stack)
           /\ pc' = IF stack' = <<>> THEN "merge" ELSE "walk"
    /\ UNCHANGED <<idml, calc, temp_dir, sheet_idx, geometric_pages, returned, output_data, written>>
    /\ UNCHANGED doc_vars

\* Lines 128-202 have no test of depth: the call that would go deeper
\* than the interpreter allows raises RecursionError, which nothing in
\* the walk, in get_page_content_from_spread or in extract() catches.
VisitRaises ==
    /\ pc = "walk"
    /\ stack # <<>>
    /\ Head(stack).depth > RecursionLimit
    /\ pc' = "raised"
    /\ UNCHANGED <<idml, calc, temp_dir, sheet_idx, story_cache, output_data, written>>
    /\ UNCHANGED walk_vars /\ UNCHANGED doc_vars

\* Line 277: the result is unpacked into two names; a bare {} has no
\* two values, the ValueError leaves extract().
UnpackRaises ==
    /\ pc = "merge"
    /\ returned = "dict"
    /\ pc' = "raised"
    /\ UNCHANGED <<idml, calc, temp_dir, sheet_idx, story_cache, output_data, written>>
    /\ UNCHANGED walk_vars /\ UNCHANGED doc_vars

\* Lines 277-292: the result of the spread is folded into the document.
Merge ==
    /\ pc = "merge"
    /\ returned = "pair"
    /\ all_page_geometries' = StoreGeometries(all_page_geometries, geometric_pages)
    /\ all_page_data_by_id' = MergeContent(all_page_data_by_id, current_spread_pages_content)
    /\ found_in' = FoundIn(found_in, all_page_data_by_id', sheet_idx)
    /\ pc' = "loop"
    /\ UNCHANGED <<idml, calc, temp_dir, sheet_idx, story_cache, output_data, written>>
    /\ UNCHANGED walk_vars

\* Lines 328-376: the pages of the output, sorted by name.
EmitOutput ==
    /\ pc = "loop"
    /\ sheet_idx = Len(idml.spread_files)
    /\ LET out == BuildOutput(SortByName(all_page_data_by_id), all_page_geometries,
                              <<>>, <<>>)
       IN  /\ output_data' = out.pages
           /\ pc' = IF out.raised THEN "raised" ELSE "write"
    /\ UNCHANGED <<idml, calc, temp_dir, sheet_idx, story_cache, written>>
    /\ UNCHANGED walk_vars /\ UNCHANGED doc_vars

\* Lines 380-385: the file is written, or open() raises an IOError,
\* which is caught and reported.
WriteJson ==
    /\ pc = "write"
    /\ written' \in BOOLEAN
    /\ pc' = "cleanup"
    /\ UNCHANGED <<idml, calc, temp_dir, sheet_idx, story_cache, output_data>>
    /\ UNCHANGED walk_vars /\ UNCHANGED doc_vars

\* Lines 380-381: open() raises something other than an IOError (a
\* TypeError when output_file_path is None, as it is when the command
\* line gives no --output_json); nothing in extract() catches it.
WriteRaises ==
    /\ pc = "write"
    /\ pc' = "raised"
    /\ UNCHANGED <<idml, calc, temp_dir, sheet_idx, story_cache, output_data, written>>
    /\ UNCHANGED walk_vars /\ UNCHANGED doc_vars

\* Lines 387-388.
Cleanup ==
    /\ pc = "cleanup"
    /\ temp_dir' = FALSE
    /\ pc' = "done"
    /\ UNCHANGED <<idml, calc, sheet_idx, story_cache, output_data, written>>
    /\ UNCHANGED walk_vars /\ UNCHANGED doc_vars

Next ==
    \/ ExtractIdml
    \/ CheckSpreadsDir
    \/ FindSpreadFiles
    \/ GetPageContent
    \/ VisitElement
    \/ VisitRaises
    \/ UnpackRaises
    \/ Merge
    \/ EmitOutput
    \/ WriteJson
    \/ WriteRaises
    \/ Cleanup

Spec == Init /\ [][Next]_vars

\* ---------------------------------------------------------------------
\* Properties
\* ---------------------------------------------------------------------
InWalk == pc \in {"walk", "merge"} /\ returned = "pair"

\* The Page elements of a spread that have a Self id, in document order.
PagesWithSelf(sheet) ==
    LET ids == SelectTag(sheet.nodes, Descendants(sheet.nodes, sheet.children), "Page")
        keep == {i \in 1..Len(ids) : sheet.nodes[ids[i]].Self \notin {None, ""}}
        Nth[n \in 0..Len(ids)] ==
            IF n = 0 THEN <<>>
            ELSE IF n \in keep THEN Append(Nth[n - 1], sheet.nodes[ids[n]]) ELSE Nth[n - 1]
    IN  Nth[Len(ids)]

\* box is the axis-aligned box of the points of the set pts.
IsBoxOf(box, pts) ==
    /\ \E p \in pts : p[1] = box.x1
    /\ \E p \in pts : p[1] = box.x2
    /\ \E p \in pts : p[2] = box.y1
    /\ \E p \in pts : p[2] = box.y2
    /\ \A p \in pts : box.x1 <= p[1] /\ p[1] <= box.x2 /\ box.y1 <= p[2] /\ p[2] <= box.y2

\* The four corners of the bounds string (y1 x1 y2 x2), as points (x, y).
CornerPoints(bounds_str) ==
    LET b == parse_geometric_bounds(bounds_str)
    IN  {<<b[2], b[1]>>, <<b[4], b[1]>>, <<b[2], b[3]>>, <<b[4], b[3]>>}

\* C1: every Page element with a Self id has one entry in geometric_pages,
\* whose global AABB is the box of the four corners of the page's local
\* bounds under multiply_matrices(sheet base transform, page local
\* transform), whatever the sheet base transform is.
C1_PageAABBComposesSheetBase ==
    InWalk =>
        LET sheet == CurrentSheet
            page_els == PagesWithSelf(sheet)
            m(i) == multiply_matrices(parse_transform_matrix(sheet.ItemTransform),
                                      parse_transform_matrix(page_els[i].ItemTransform))
        IN  /\ Len(geometric_pages) = Len(page_els)
            /\ \A i \in 1..Len(page_els) :
                  /\ geometric_pages[i].id = page_els[i].Self
                  /\ IsBoxOf(geometric_pages[i].global_aabb,
                             {apply_transform_to_point(p[1], p[2], m(i)) :
                                 p \in CornerPoints(page_els[i].GeometricBounds)})

\* A spread with a base transform other than the identity has built a
\* page whose box differs from the box under the page's own transform.
C1_Witness ==
    /\ InWalk
    /\ parse_transform_matrix(CurrentSheet.ItemTransform) # Identity
    /\ \E i \in 1..Len(geometric_pages) :
          ~IsBoxOf(geometric_pages[i].global_aabb,
                   {apply_transform_to_point(p[1], p[2],
                        parse_transform_matrix(PagesWithSelf(CurrentSheet)[i].ItemTransform)) :
                      p \in CornerPoints(PagesWithSelf(CurrentSheet)[i].GeometricBounds)})

\* The point c (in half units) lies in the closed box.
InClosedBox(c, box) ==
    /\ 2 * box.x1 <= c[1] /\ c[1] <= 2 * box.x2
    /\ 2 * box.y1 <= c[2] /\ c[2] <= 2 * box.y2

\* The indices of the pages of the current spread whose box holds c.
Holders(c) == {i \in 1..Len(geometric_pages) : InClosedBox(c, geometric_pages[i].global_aabb)}

\* C2: the page assigned to a visited element is the earliest page of the
\* spread's page list whose global AABB contains the element's centre,
\* also when several boxes contain it, and None when no box contains it.
C2_FirstPageWins ==
    last_visit # <<>> =>
        LET v == last_visit[1]
            holders == Holders(v.center)
        IN  IF holders = {} THEN v.assigned_page_id = None
            ELSE \E i \in holders :
                    /\ \A j \in holders : i <= j
                    /\ v.assigned_page_id = geometric_pages[i].id

\* A centre held by the boxes of two pages went to the earlier page.
C2_Witness ==
    /\ last_visit # <<>>
    /\ \E i, j \in Holders(last_visit[1].center) :
          /\ i < j
          /\ geometric_pages[i].id # geometric_pages[j].id
          /\ last_visit[1].assigned_page_id = geometric_pages[i].id

\* C3: containment is closed on both axes: a visited element is assigned
\* to a page exactly when some page box [x1,x2]x[y1,y2] has
\* x1 <= px <= x2 and y1 <= py <= y2 for its centre, edges and corners
\* included, and the box of the assigned page does so.
C3_ClosedContainment ==
    last_visit # <<>> =>
        LET v == last_visit[1]
        IN  /\ (v.assigned_page_id # None) <=>
                  (\E i \in 1..Len(geometric_pages) :
                      LET b == geometric_pages[i].global_aabb
                      IN  /\ ~(v.center[1] < 2 * b.x1) /\ ~(v.center[1] > 2 * b.x2)
                          /\ ~(v.center[2] < 2 * b.y1) /\ ~(v.center[2] > 2 * b.y2))
            /\ v.assigned_page_id # None =>
                  \E i \in 1..Len(geometric_pages) :
                      /\ geometric_pages[i].id = v.assigned_page_id
                      /\ InClosedBox(v.center, geometric_pages[i].global_aabb)

\* A centre lying on an edge of every box that holds it was assigned.
C3_Witness ==
    /\ last_visit # <<>>
    /\ last_visit[1].assigned_page_id # None
    /\ \A i \in Holders(last_visit[1].center) :
          LET b == geometric_pages[i].global_aabb
              c == last_visit[1].center
          IN  c[1] = 2 * b.x1 \/ c[1] = 2 * b.x2 \/ c[2] = 2 * b.y1 \/ c[2] = 2 * b.y2

\* No two images of the list share (uri, image_element_id) and no two
\* texts share (story_id, text_frame_id).
UniqueKeys(pdata) ==
    /\ \A i, j \in 1..Len(pdata.images) :
          (pdata.images[i].uri = pdata.images[j].uri
           /\ pdata.images[i].image_element_id = pdata.images[j].image_element_id) => i = j
    /\ \A i, j \in 1..Len(pdata.texts) :
          (pdata.texts[i].story_id = pdata.texts[j].story_id
           /\ pdata.texts[i].text_frame_id = pdata.texts[j].text_frame_id) => i = j

\* C4: after any sequence of element visits and merges, no page's content
\* list, per spread or per document, holds two images with the same
\* (uri, image_element_id) or two texts with the same (story_id,
\* text_frame_id).
C4_UniqueKeysPerPage ==
    /\ \A k \in 1..Len(current_spread_pages_content) :
          UniqueKeys(current_spread_pages_content[k])
    /\ \A k \in 1..Len(all_page_data_by_id) : UniqueKeys(all_page_data_by_id[k])

\* A merge met an image key the document already held for the page (from
\* another element) and the page still lists it once.
C4_Witness ==
    /\ pc = "loop"
    /\ \E k \in 1..Len(current_spread_pages_content), d \in 1..Len(all_page_data_by_id) :
          /\ current_spread_pages_content[k].pid = all_page_data_by_id[d].pid
          /\ \E i \in 1..Len(current_spread_pages_content[k].images),
                j \in 1..Len(all_page_data_by_id[d].images) :
                LET a == current_spread_pages_content[k].images[i]
                    b == all_page_data_by_id[d].images[j]
                IN  a.uri = b.uri /\ a.image_element_id = b.image_element_id /\ a # b

ItemCount(pdata) == Len(pdata.images) + Len(pdata.texts)

\* C5 (as stated): every content item of the document map is recorded
\* under exactly one page id: no image key (uri, image_element_id) and no
\* text frame id appears in the lists of two different page ids.
C5_KeysUnderOnePageId ==
    \A d, e \in 1..Len(all_page_data_by_id) :
        d # e =>
            /\ \A i \in 1..Len(all_page_data_by_id[d].images),
                  j \in 1..Len(all_page_data_by_id[e].images) :
                  ~(/\ all_page_data_by_id[d].images[i].uri = all_page_data_by_id[e].images[j].uri
                    /\ all_page_data_by_id[d].images[i].image_element_id
                          = all_page_data_by_id[e].images[j].image_element_id)
            /\ \A i \in 1..Len(all_page_data_by_id[d].texts),
                  j \in 1..Len(all_page_data_by_id[e].texts) :
                  all_page_data_by_id[d].texts[i].text_frame_id
                      # all_page_data_by_id[e].texts[j].text_frame_id

\* C5 (amended): one call of the walk changes the list of at most one
\* page, the page its element was assigned to, and appends exactly one
\* item there; a merge puts a spread's item only under the page id it
\* had in the spread.  (Keys are unique per page only.)
C5_VisitAppendsUnderAssignedPage ==
    [][ /\ pc = "walk" =>
            /\ Len(current_spread_pages_content') = Len(current_spread_pages_content)
            /\ \A k \in 1..Len(current_spread_pages_content) :
                  current_spread_pages_content'[k] # current_spread_pages_content[k] =>
                     /\ current_spread_pages_content[k].pid = last_visit'[1].assigned_page_id
                     /\ current_spread_pages_content'[k].pid = current_spread_pages_content[k].pid
                     /\ ItemCount(current_spread_pages_content'[k])
                           = ItemCount(current_spread_pages_content[k]) + 1
        /\ pc = "merge" =>
            \A d \in 1..Len(all_page_data_by_id') :
                LET after == all_page_data_by_id'[d]
                    before == IF d <= Len(all_page_data_by_id)
                              THEN all_page_data_by_id[d]
                              ELSE [after EXCEPT !.images = <<>>, !.texts = <<>>]
                    own == {k \in 1..Len(current_spread_pages_content) :
                               current_spread_pages_content[k].pid = after.pid}
                IN  /\ \A i \in (Len(before.images) + 1)..Len(after.images) :
                          \E k \in own : \E j \in 1..Len(current_spread_pages_content[k].images) :
                              current_spread_pages_content[k].images[j] = after.images[i]
                    /\ \A i \in (Len(before.texts) + 1)..Len(after.texts) :
                          \E k \in own : \E j \in 1..Len(current_spread_pages_content[k].texts) :
                              current_spread_pages_content[k].texts[j] = after.texts[i]
      ]_vars

\* A spread with two pages: the image just visited was appended to the
\* list of the second page and to no other list.
C5_Witness ==
    /\ InWalk
    /\ last_visit # <<>>
    /\ last_visit[1].tag = "Image"
    /\ Len(current_spread_pages_content) >= 2
    /\ current_spread_pages_content[2].pid = last_visit[1].assigned_page_id
    /\ \E i \in 1..Len(current_spread_pages_content[2].images) :
          /\ current_spread_pages_content[2].images[i].image_element_id
                = last_visit[1].element_id
          /\ current_spread_pages_content[2].images[i].global_bounds
                = last_visit[1].item_global_aabb
    /\ \A i \in 1..Len(current_spread_pages_content[1].images) :
          current_spread_pages_content[1].images[i].image_element_id
              # last_visit[1].element_id

\* The items of the spread's list that the claimed merge appends: those
\* whose key is not in the document's list.
NewImages(doc_images, sheet_images) ==
    LET fresh(img) == ~\E i \in 1..Len(doc_images) :
                          /\ doc_images[i].uri = img.uri
                          /\ doc_images[i].image_element_id = img.image_element_id
    IN  SelectSeq(sheet_images, fresh)

NewTextsByPair(doc_texts, sheet_texts) ==
    LET fresh(t) == ~\E i \in 1..Len(doc_texts) :
                        /\ doc_texts[i].story_id = t.story_id
                        /\ doc_texts[i].text_frame_id = t.text_frame_id
    IN  SelectSeq(sheet_texts, fresh)

\* C6: a merge makes the spread's whole entry the document entry of a
\* page id that is new, and for a page id already present appends, in
\* spread order, exactly the images whose (uri, image_element_id) and the
\* texts whose (story_id, text_frame_id) the document list does not hold,
\* leaving the items already there as they are.
C6_MergeAppendsNewKeys ==
    [][ (pc = "merge" /\ returned = "pair") =>
          \A k \in 1..Len(current_spread_pages_content) :
              LET pdata == current_spread_pages_content[k]
                  d == IndexOf(all_page_data_by_id', pdata.pid)
              IN  /\ HasKey(all_page_data_by_id', pdata.pid)
                  /\ IF HasKey(all_page_data_by_id, pdata.pid)
                     THEN LET old == all_page_data_by_id[IndexOf(all_page_data_by_id, pdata.pid)]
                          IN  /\ all_page_data_by_id'[d].name = old.name
                              /\ all_page_data_by_id'[d].images
                                    = old.images \o NewImages(old.images, pdata.images)
                              /\ all_page_data_by_id'[d].texts
                                    = old.texts \o NewTextsByPair(old.texts, pdata.texts)
                     ELSE all_page_data_by_id'[d] = pdata
      ]_vars

\* The spread file being merged was processed before in this run.
RepeatedSheet == \E j \in 1..(sheet_idx - 1) : idml.spread_files[j] = CurrentSheet

\* C7: processing a spread file a second time (walk and merge) leaves
\* every page's image list and text list in the document map unchanged in
\* length, content and order.
C7_RepeatedSheetIdempotent ==
    [][ (pc = "merge" /\ returned = "pair" /\ RepeatedSheet) =>
            all_page_data_by_id' = all_page_data_by_id ]_vars

\* A spread that placed a text and an image was processed twice.
C7_Witness ==
    /\ pc = "loop"
    /\ sheet_idx >= 2
    /\ RepeatedSheet
    /\ \E k \in 1..Len(current_spread_pages_content) :
          /\ current_spread_pages_content[k].images # <<>>
          /\ current_spread_pages_content[k].texts # <<>>

Emitted == pc \in {"write", "cleanup", "done"} /\ sheet_idx > 0

\* C8: every emitted Text and Image has Bounds equal to its global AABB
\* minus the origin (x1, y1) of the global AABB stored for its page id,
\* and carries that page's width x2 - x1 and height y2 - y1.
C8_PageRelativeBounds ==
    Emitted =>
        \A o \in 1..Len(output_data) :
            LET out == output_data[o]
                pdata == all_page_data_by_id[IndexOf(all_page_data_by_id, out.page_id)]
                g == all_page_geometries[out.page_id].global_aabb
                ok(item, b) ==
                    /\ item.Bounds.x1 = b.x1 - g.x1 /\ item.Bounds.x2 = b.x2 - g.x1
                    /\ item.Bounds.y1 = b.y1 - g.y1 /\ item.Bounds.y2 = b.y2 - g.y1
                    /\ item.page_width = g.x2 - g.x1
                    /\ item.page_height = g.y2 - g.y1
            IN  /\ HasKey(all_page_data_by_id, out.page_id)
                /\ out.page_id \in DOMAIN all_page_geometries
                /\ Len(out.images) = Len(pdata.images)
                /\ Len(out.texts) = Len(pdata.texts)
                /\ \A i \in 1..Len(out.images) : ok(out.images[i], pdata.images[i].global_bounds)
                /\ \A i \in 1..Len(out.texts) : ok(out.texts[i], pdata.texts[i].global_bounds)

\* An image and a text were emitted for a page whose origin is not (0,0).
C8_Witness ==
    /\ Emitted
    /\ \E o \in 1..Len(output_data) :
          /\ output_data[o].images # <<>>
          /\ output_data[o].texts # <<>>
          /\ all_page_geometries[output_data[o].page_id].global_aabb.x1 # 0
          /\ all_page_geometries[output_data[o].page_id].global_aabb.y1 # 0

\* The spread file just read is malformed, has no Spread element with
\* Page children, or has only Page elements without a Self id.
SheetFails ==
    \/ ~CurrentSheet.wellformed
    \/ ~HasPageChild(CurrentSheet)
    \/ PagesWithSelf(CurrentSheet) = <<>>

\* C9: a spread file that fails on its own (malformed XML, no Spread
\* with Page children, no Page with a Self id) adds nothing to the
\* document map and the run goes on with the next spread file.
C9_SheetFailureNotFatal ==
    [][ (pc = "merge" /\ SheetFails) =>
            /\ pc' = "loop"
            /\ all_page_data_by_id' = all_page_data_by_id ]_vars

ImageOf(images, element_id) ==
    {i \in 1..Len(images) : images[i].image_element_id = element_id}

\* C10 (as stated): in the scenario (identity sheet base, page bounds
\* 800 x 600 with ItemTransform "1 0 0 1 100 50", an Image with bounds
\* (0,0,50,50) and identity transform) the image is assigned to the page
\* with global bounds (100,50,150,100) and page-relative bounds
\* (0,0,50,50).
C10_ScenarioIdentityImage ==
    (Emitted /\ idml.spread_files = <<SheetE>>) =>
        /\ Len(output_data) = 1
        /\ \E i \in ImageOf(all_page_data_by_id[1].images, "imE0") :
              /\ all_page_data_by_id[1].images[i].global_bounds
                    = [x1 |-> 100, y1 |-> 50, x2 |-> 150, y2 |-> 100]
              /\ output_data[1].images[i].Bounds = [x1 |-> 0, y1 |-> 0, x2 |-> 50, y2 |-> 50]

\* C10 (amended): in that scenario the page's global AABB is
\* (100,50,900,650); the image with identity transform keeps global
\* bounds (0,0,50,50), lies on no page and is not emitted; the image
\* that itself carries ItemTransform "1 0 0 1 100 50" is assigned to the
\* page with global bounds (100,50,150,100) and page-relative bounds
\* (0,0,50,50).
C10_ScenarioMovedImage ==
    (Emitted /\ idml.spread_files = <<SheetE>>) =>
        /\ Len(output_data) = 1
        /\ output_data[1].page_id = "PE"
        /\ all_page_geometries["PE"].global_aabb
              = [x1 |-> 100, y1 |-> 50, x2 |-> 900, y2 |-> 650]
        /\ ImageOf(all_page_data_by_id[1].images, "imE0") = {}
        /\ \E i \in ImageOf(all_page_data_by_id[1].images, "imE1") :
              /\ all_page_data_by_id[1].images[i].global_bounds
                    = [x1 |-> 100, y1 |-> 50, x2 |-> 150, y2 |-> 100]
              /\ output_data[1].images[i].ImageId = "imE1"
              /\ output_data[1].images[i].Bounds = [x1 |-> 0, y1 |-> 0, x2 |-> 50, y2 |-> 50]

\* The scenario's run has emitted its output.
C10_Witness ==
    /\ Emitted
    /\ idml.spread_files = <<SheetE>>
    /\ output_data # <<>>
    /\ output_data[1].images # <<>>

\* ---------------------------------------------------------------------
\* Direct calls of the matrix helpers and of the parser
\* ---------------------------------------------------------------------
\* A behaviour of SpecCalc is one call of one helper on inputs drawn
\* from the sets below; calc holds the arguments and the results.
\* Largest absolute coordinate of a point given to apply_transform_to_point.
MaxCoord == 1

\* Largest number of tokens of a string given to parse_transform_matrix.
MaxTokens == 7

Shear == Str6(1, 1, 0, 1, 0, 0)

Squash == Str6(2, 1, -1, 3, 4, -2)

\* A translation, a scaling, a rotation, a shear and a transform with
\* every coefficient set, next to the identity.
Transforms ==
    {parse_transform_matrix(t) : t \in {<<>>, Translate35, Scale2, Rotate90, Shear, Squash}}

Points == (-MaxCoord..MaxCoord) \X (-MaxCoord..MaxCoord)

\* Strings of numeric tokens and of tokens float() rejects; <<>> is the
\* absent and the empty attribute.
TransformStrings == SeqsUpTo({Tok(1), Tok(2), BadTok}, MaxTokens)

\* multiply_matrices and apply_transform_to_point on three transforms
\* and a point.
CalcCompose ==
    /\ calc = NoCalc
    /\ \E A \in Transforms, B \in Transforms, M \in Transforms, p \in Points :
        /\ calc' = [op |-> "compose", A |-> A, B |-> B, M |-> M, p |-> p,
                    I_M |-> multiply_matrices(Identity, M),
                    M_I |-> multiply_matrices(M, Identity),
                    AB |-> multiply_matrices(A, B),
                    BA |-> multiply_matrices(B, A),
                    AB_M |-> multiply_matrices(multiply_matrices(A, B), M),
                    A_BM |-> multiply_matrices(A, multiply_matrices(B, M)),
                    p_AB |-> apply_transform_to_point(p[1], p[2], multiply_matrices(A, B)),
                    p_B |-> apply_transform_to_point(p[1], p[2], B),
                    p_B_A |-> LET q == apply_transform_to_point(p[1], p[2], B)
                              IN  apply_transform_to_point(q[1], q[2], A)]
        /\ UNCHANGED <<idml, pc, temp_dir, sheet_idx, story_cache, output_data, written>>
        /\ UNCHANGED walk_vars /\ UNCHANGED doc_vars

\* parse_transform_matrix on one string; the ValueError of float() is
\* caught inside (line 17), so the call always returns.
CalcParse ==
    /\ calc = NoCalc
    /\ \E transform_str \in TransformStrings :
        /\ calc' = [op |-> "parse", transform_str |-> transform_str,
                    result |-> parse_transform_matrix(transform_str)]
        /\ UNCHANGED <<idml, pc, temp_dir, sheet_idx, story_cache, output_data, written>>
        /\ UNCHANGED walk_vars /\ UNCHANGED doc_vars

\* A document map of one or two pages, each with at most one image and
\* one text, for the output loop taken alone.
OutputImage ==
    [uri |-> "a.png", image_element_id |-> "im1",
     global_bounds |-> [x1 |-> 3, y1 |-> 4, x2 |-> 5, y2 |-> 6],
     item_transform |-> <<>>, container_element_tag |-> "Spread",
     container_element_id |-> "SpreadA"]

OutputText ==
    [story_id |-> "s1", text_frame_id |-> "tf1", content |-> "Hello",
     global_bounds |-> [x1 |-> 1, y1 |-> 2, x2 |-> 3, y2 |-> 4],
     item_transform |-> <<>>]

OutputEntries ==
    [pid : {"P1", "P2"}, name : {"1", "2"},
     images : {<<>>, <<OutputImage>>}, texts : {<<>>, <<OutputText>>}]

OutputDocMaps ==
    {m \in SeqsUpTo(OutputEntries, 2) :
        /\ m # <<>>
        /\ \A i \in 1..Len(m), j \in 1..Len(m) : i # j => m[i].pid # m[j].pid}

\* Geometry for some of the page ids: P1 is 10 x 10 at (1, 1), P2 is
\* 30 x 20 at the origin.
OutputGeometry(pid) ==
    IF pid = "P1"
    THEN PageGeometricInfo("P1", "1", Str6(1, 0, 0, 1, 1, 1), Str4(0, 0, 10, 10), Identity)
    ELSE PageGeometricInfo("P2", "2", <<>>, Str4(0, 0, 20, 30), Identity)

OutputGeometries ==
    {[pid \in known |-> OutputGeometry(pid)] : known \in SUBSET {"P1", "P2"}}

\* Lines 328-376 on a document map and a geometry map.
CalcOutput ==
    /\ calc = NoCalc
    /\ \E data \in OutputDocMaps, geometries \in OutputGeometries :
        /\ calc' = [op |-> "output", data |-> data, geometries |-> geometries,
                    out |-> BuildOutput(SortByName(data), geometries, <<>>, <<>>)]
        /\ UNCHANGED <<idml, pc, temp_dir, sheet_idx, story_cache, output_data, written>>
        /\ UNCHANGED walk_vars /\ UNCHANGED doc_vars

\* test_box.py lines 152-163: the local bounds of an Image.
test_box_image_bounds(element) ==
    LET g == element.GraphicBounds
        from_gb == IF g # <<>> /\ ~FloatsRaise(g)
                   THEN <<g[2].val, g[1].val, g[4].val, g[3].val>>
                   ELSE ZeroBounds
    IN  IF from_gb = ZeroBounds
        THEN IF element.GeometricBounds # <<>>
             THEN parse_geometric_bounds(element.GeometricBounds)
             ELSE ZeroBounds
        ELSE from_gb

\* extract_box.py lines 194-211 and 237: item_local_bounds is assigned
\* only inside the try under "GraphicBounds found"; without the property,
\* or when float() raises, the name is unbound when line 237 reads it.
extract_box_image_bounds(element) ==
    LET g == element.GraphicBounds
    IN  IF g # <<>> /\ ~FloatsRaise(g)
        THEN [raised |-> FALSE, bounds |-> <<g[2].val, g[1].val, g[4].val, g[3].val>>]
        ELSE [raised |-> TRUE, bounds |-> <<>>]

\* GraphicBounds properties (Left, Top, Right, Bottom): absent, all
\* zero, set, and with an edge that is not a number.
GraphicBoundsInputs ==
    {<<>>, Str4(0, 0, 0, 0), Str4(1, 2, 3, 4), <<BadTok, Tok(2), Tok(3), Tok(4)>>}

\* GeometricBounds attributes: absent, set, with three tokens, with a
\* token that is not a number.
GeometricBoundsInputs ==
    {<<>>, Str4(5, 6, 7, 8), <<Tok(5), Tok(6), Tok(7)>>, <<Tok(5), BadTok, Tok(7), Tok(8)>>}

\* The local bounds of one Image as each variant of the walk resolves
\* them.
CalcImageBounds ==
    /\ calc = NoCalc
    /\ \E g \in GraphicBoundsInputs, gb \in GeometricBoundsInputs :
          LET element == [Image("im", "a.png", <<>>, g) EXCEPT !.GeometricBounds = gb]
          IN  calc' = [op |-> "image_bounds", element |-> element,
                       extract_from_idml |->
                           [raised |-> FALSE, bounds |-> determined_local_bounds(element)],
                       test_box |->
                           [raised |-> FALSE, bounds |-> test_box_image_bounds(element)],
                       extract_box |-> extract_box_image_bounds(element)]
    /\ UNCHANGED <<idml, pc, temp_dir, sheet_idx, story_cache, output_data, written>>
    /\ UNCHANGED walk_vars /\ UNCHANGED doc_vars

\* PathPointArray elements: two corners of a box, a point outside that
\* box, one without anchors and one whose anchor is not two numbers.
PathBox == <<Str2(0, 0), Str2(4, 2)>>

PathFar == <<Str2(10, 10)>>

PathBad == <<<<Tok(1), BadTok>>, <<Tok(1)>>>>

PathGeometryInputs ==
    {<<>>, <<PathBox>>, <<PathBox, PathFar>>, <<PathFar, PathBox>>, <<<<>>>>, <<PathBad>>,
     <<PathBad, PathFar>>}

\* The local bounds of one TextFrame as the walk resolves them.
CalcTextFrameBounds ==
    /\ calc = NoCalc
    /\ \E paths \in PathGeometryInputs, gb \in GeometricBoundsInputs,
          transform \in {<<>>, Translate35, Rotate90} :
          LET element == [TextFramePath("tf", "s1", transform, paths)
                             EXCEPT !.GeometricBounds = gb]
          IN  calc' = [op |-> "text_frame_bounds", element |-> element,
                       bounds |-> determined_local_bounds(element)]
    /\ UNCHANGED <<idml, pc, temp_dir, sheet_idx, story_cache, output_data, written>>
    /\ UNCHANGED walk_vars /\ UNCHANGED doc_vars

InitCalc ==
    /\ Init
    /\ idml = [archive_ok |-> TRUE, has_spreads_dir |-> TRUE, spread_files |-> <<>>]

NextCalc ==
    \/ CalcCompose
    \/ CalcParse
    \/ CalcOutput
    \/ CalcImageBounds
    \/ CalcTextFrameBounds

SpecCalc == InitCalc /\ [][NextCalc]_vars

\* ---------------------------------------------------------------------
\* Properties of the helpers
\* ---------------------------------------------------------------------
\* C11: the identity transform is neutral on both sides of
\* multiply_matrices, applying the composition of A and B to a point is
\* applying B and then A, and the composition is associative.
C11_CompositionLaws ==
    calc.op = "compose" =>
        /\ calc.I_M = calc.M
        /\ calc.M_I = calc.M
        /\ calc.p_AB = calc.p_B_A
        /\ calc.AB_M = calc.A_BM

\* The composition is not commutative: two transforms whose products
\* differ in the two orders, with the laws in force, on a point that B
\* moves.
C11_Witness ==
    /\ calc.op = "compose"
    /\ calc.AB # calc.BA
    /\ calc.M # Identity
    /\ calc.p_B # calc.p
    /\ calc.p_AB = calc.p_B_A

\* C12: parse_transform_matrix answers the identity for an absent or
\* empty string, for a string with a token that is not a number and for
\* a token count other than 6, and the six values in order for six
\* numeric tokens.
C12_ParseTotal ==
    calc.op = "parse" =>
        LET s == calc.transform_str
            numeric == \A i \in 1..Len(s) : s[i].num
        IN  IF Len(s) = 6 /\ numeric
            THEN /\ Len(calc.result) = 6
                 /\ \A i \in 1..6 : calc.result[i] = s[i].val
            ELSE calc.result = <<1, 0, 0, 1, 0, 0>>

\* Six numeric tokens that are not the identity came back in order.
C12_Witness ==
    /\ calc.op = "parse"
    /\ Len(calc.transform_str) = 6
    /\ calc.result = <<2, 1, 1, 2, 1, 2>>

\* ---------------------------------------------------------------------
\* Properties of the document map across spreads
\* ---------------------------------------------------------------------
\* The Page elements of sheet that carry the id pid, in document order.
PagesNamed(sheet, pid) ==
    LET pages == PagesWithSelf(sheet)
    IN  {i \in 1..Len(pages) : pages[i].Self = pid}

\* The name the first Page element with the id pid declares, taking the
\* spread files in processing order.
FirstDeclaredName(pid) ==
    LET holders == {j \in 1..Len(idml.spread_files) :
                       PagesNamed(idml.spread_files[j], pid) # {}}
        first == idml.spread_files[SetMin(holders)]
        page_el == PagesWithSelf(first)[SetMin(PagesNamed(first, pid))]
    IN  IF page_el.Name = None THEN "UnkPage_" \o pid ELSE page_el.Name

\* C13: the name of a page in the document map, and in the output, is
\* the one declared by the first spread file in processing order that
\* holds the page id; a later spread file never changes it.
C13_FirstSheetNamesPage ==
    /\ \A k \in 1..Len(all_page_data_by_id) :
           all_page_data_by_id[k].name = FirstDeclaredName(all_page_data_by_id[k].pid)
    /\ \A k \in 1..Len(output_data) :
           output_data[k].page_name = FirstDeclaredName(output_data[k].page_id)

\* A second spread file that names page P1 otherwise has been merged and
\* the output is built.
C13_Witness ==
    /\ Len(idml.spread_files) = 2
    /\ \E a \in PagesNamed(idml.spread_files[1], "P1"), b \in PagesNamed(idml.spread_files[2], "P1") :
           PagesWithSelf(idml.spread_files[1])[a].Name
               # PagesWithSelf(idml.spread_files[2])[b].Name
    /\ output_data # <<>>
    /\ \E k \in 1..Len(output_data) : output_data[k].page_id = "P1"

\* ---------------------------------------------------------------------
\* Properties of the output loop
\* ---------------------------------------------------------------------
\* The size of the page box stored under pid.
StoredSize(geometries, pid) ==
    << geometries[pid].global_aabb.x2 - geometries[pid].global_aabb.x1,
       geometries[pid].global_aabb.y2 - geometries[pid].global_aabb.y1 >>

\* The bounds of an item of the document map as the output writes them
\* when nothing is subtracted.
Untouched(global_bounds, out_bounds) ==
    /\ out_bounds.x1 = global_bounds.x1 /\ out_bounds.y1 = global_bounds.y1
    /\ out_bounds.x2 = global_bounds.x2 /\ out_bounds.y2 = global_bounds.y2

C15_TempDirRemovedOnEveryExit ==
    pc \in {"done", "raised"} => ~temp_dir

\* ---------------------------------------------------------------------
\* Properties of the walk
\* ---------------------------------------------------------------------
\* The node of the spread file that holds node n among its children, 0
\* when n is a child of the Spread element.
ParentNode(sheet, n) ==
    LET holders == {m \in 1..Len(sheet.nodes) :
                       \E i \in 1..Len(sheet.nodes[m].children) :
                           sheet.nodes[m].children[i] = n}
    IN  IF holders = {} THEN 0 ELSE CHOOSE m \in holders : TRUE

\* B * L(e1) * ... * L(en) for the chain of containers that ends in
\* node n, multiplied parent first.
RECURSIVE ChainProduct(_, _)
ChainProduct(sheet, n) ==
    IF n = 0 THEN parse_transform_matrix(sheet.ItemTransform)
    ELSE multiply_matrices(ChainProduct(sheet, ParentNode(sheet, n)),
                           parse_transform_matrix(sheet.nodes[n].ItemTransform))

\* C16: the global transform of a visited element is the spread base
\* times the local transforms of the containers above it, outermost
\* first, times its own; the accumulated transform it was called with
\* is the global transform of its parent.
C16_GlobalIsChainProduct ==
    (InWalk /\ last_visit # <<>>) =>
        LET v == last_visit[1]
        IN  /\ v.item_global_matrix = ChainProduct(CurrentSheet, v.node)
            /\ v.current_accumulated_matrix
                   = ChainProduct(CurrentSheet, ParentNode(CurrentSheet, v.node))
            /\ v.parent = ParentNode(CurrentSheet, v.node)

\* An element two containers deep under a spread base that is not the
\* identity, whose global transform is neither the base times its own
\* transform nor its parent's local transform times its own.
C16_Witness ==
    /\ InWalk /\ last_visit # <<>>
    /\ LET v == last_visit[1]
           sheet == CurrentSheet
           base == parse_transform_matrix(sheet.ItemTransform)
       IN  /\ v.depth = 2
           /\ base # Identity
           /\ v.item_global_matrix # multiply_matrices(base, v.item_local_matrix)
           /\ v.item_global_matrix #
                  multiply_matrices(
                      parse_transform_matrix(sheet.nodes[v.parent].ItemTransform),
                      v.item_local_matrix)
           /\ v.current_accumulated_matrix # base

\* The element the latest call of the walk visited (in the next state).
VisitedElement == CurrentSheet.nodes[last_visit'[1].node]

\* The text of a story as the walk resolves it.
ResolvedText(story_id) ==
    IF story_id \in StoryFiles THEN get_story_text(story_id) ELSE ""

\* The step is a call of the walk on an element with the given tag.
Visits(tag) == pc = "walk" /\ last_visit' # <<>> /\ last_visit'[1].tag = tag

\* The step appended exactly one text to the list of page k and left
\* every other list as it was.
TextAppendedTo(k) ==
    /\ Len(current_spread_pages_content'[k].texts)
           = Len(current_spread_pages_content[k].texts) + 1
    /\ SubSeq(current_spread_pages_content'[k].texts, 1,
              Len(current_spread_pages_content[k].texts))
           = current_spread_pages_content[k].texts
    /\ current_spread_pages_content'[k].images = current_spread_pages_content[k].images
    /\ \A j \in 1..Len(current_spread_pages_content) :
           j # k => current_spread_pages_content'[j] = current_spread_pages_content[j]

\* C17: the visit of a TextFrame appends a Text item to the list of its
\* page exactly when a page was assigned, the frame refers to a story,
\* the story's text is not empty and the pair (story id, element id) is
\* not yet in the page's list; otherwise the map is unchanged.
C17_TextAppendedIffNewPair ==
    [][ Visits("TextFrame") =>
          LET v == last_visit'[1]
              story_id == VisitedElement.ParentStory
              own == {k \in 1..Len(current_spread_pages_content) :
                         current_spread_pages_content[k].pid = v.assigned_page_id}
              due == /\ v.assigned_page_id # None
                     /\ story_id # None /\ story_id # ""
                     /\ ResolvedText(story_id) # ""
                     /\ \A k \in own : \A i \in 1..Len(current_spread_pages_content[k].texts) :
                            ~ /\ current_spread_pages_content[k].texts[i].story_id = story_id
                              /\ current_spread_pages_content[k].texts[i].text_frame_id
                                     = v.element_id
          IN  IF due
              THEN \E k \in own :
                      /\ TextAppendedTo(k)
                      /\ LET t == current_spread_pages_content'[k].texts[
                                      Len(current_spread_pages_content'[k].texts)]
                         IN  /\ t.story_id = story_id
                             /\ t.text_frame_id = v.element_id
                             /\ t.content = ResolvedText(story_id)
              ELSE current_spread_pages_content' = current_spread_pages_content
      ]_vars

\* The step appended exactly one image to the list of page k and left
\* every other list as it was.
ImageAppendedTo(k) ==
    /\ Len(current_spread_pages_content'[k].images)
           = Len(current_spread_pages_content[k].images) + 1
    /\ SubSeq(current_spread_pages_content'[k].images, 1,
              Len(current_spread_pages_content[k].images))
           = current_spread_pages_content[k].images
    /\ current_spread_pages_content'[k].texts = current_spread_pages_content[k].texts
    /\ \A j \in 1..Len(current_spread_pages_content) :
           j # k => current_spread_pages_content'[j] = current_spread_pages_content[j]

\* C18: the visit of an Image appends an Image item to the list of its
\* page exactly when a page was assigned, a Link with a non-empty
\* LinkResourceURI is nested in it and the pair (uri, element id) is not
\* yet in the page's list; the item carries the tag and the Self id of
\* the element's parent in the tree as its container; otherwise the map
\* is unchanged.
C18_ImageAppendedIffNewKey ==
    [][ Visits("Image") =>
          LET v == last_visit'[1]
              sheet == CurrentSheet
              uri == VisitedElement.Link
              up == ParentNode(sheet, v.node)
              own == {k \in 1..Len(current_spread_pages_content) :
                         current_spread_pages_content[k].pid = v.assigned_page_id}
              due == /\ v.assigned_page_id # None
                     /\ uri # None /\ uri # ""
                     /\ \A k \in own : \A i \in 1..Len(current_spread_pages_content[k].images) :
                            ~ /\ current_spread_pages_content[k].images[i].uri = uri
                              /\ current_spread_pages_content[k].images[i].image_element_id
                                     = v.element_id
          IN  IF due
              THEN \E k \in own :
                      /\ ImageAppendedTo(k)
                      /\ LET img == current_spread_pages_content'[k].images[
                                        Len(current_spread_pages_content'[k].images)]
                         IN  /\ img.uri = uri
                             /\ img.image_element_id = v.element_id
                             /\ img.global_bounds = v.item_global_aabb
                             /\ img.container_element_tag
                                    = (IF up = 0 THEN "Spread" ELSE sheet.nodes[up].tag)
                             /\ img.container_element_id
                                    = (IF up = 0 THEN sheet.Self ELSE sheet.nodes[up].Self)
              ELSE current_spread_pages_content' = current_spread_pages_content
      ]_vars

\* Every case of the visit has happened in one spread: an image inside a
\* Rectangle was appended with the Rectangle as container, the same key
\* came again, an image with the same URI under a new id was appended,
\* an image without Link and one with an empty URI were visited on the
\* page.
C18_Witness ==
    /\ InWalk /\ pc = "merge"
    /\ \E k \in 1..Len(current_spread_pages_content) :
          LET images == current_spread_pages_content[k].images
          IN  /\ \E i \in 1..Len(images) :
                     /\ images[i].container_element_tag = "Rectangle"
                     /\ images[i].container_element_id = "rN"
                     /\ images[i].image_element_id = "imN"
              /\ \E i \in 1..Len(images) :
                     images[i].uri = "n.png" /\ images[i].image_element_id = "imM"
              /\ Cardinality({i \in 1..Len(images) : images[i].image_element_id = "imN"}) = 1
              /\ ~ \E i \in 1..Len(images) : images[i].image_element_id \in {"imNL", "imEU"}

\* C19: a call of the walk reads a story file only for a story that the
\* cache does not hold, and the cache holds it afterwards (with the empty
\* text when the file is missing); an entry of the cache is never
\* changed or removed, and a text appended by the call has the text the
\* cache holds for its story.
C19_StoryResolvedOnce ==
    [][ /\ \A s \in DOMAIN story_cache :
              s \in DOMAIN story_cache' /\ story_cache'[s] = story_cache[s]
        /\ (pc = "walk" /\ last_visit' # <<>>) =>
              LET v == last_visit'[1]
                  story_id == VisitedElement.ParentStory
              IN  /\ v.story_read # None =>
                         /\ v.story_read = story_id
                         /\ story_id \notin DOMAIN story_cache
                         /\ story_id \in DOMAIN story_cache'
                         /\ story_cache'[story_id] = ResolvedText(story_id)
                  /\ v.story_read = None => story_cache' = story_cache
                  /\ (v.tag = "TextFrame" /\ v.assigned_page_id # None
                        /\ story_id # None /\ story_id # "") =>
                         /\ story_id \in DOMAIN story_cache'
                         /\ \A k \in 1..Len(current_spread_pages_content) :
                               current_spread_pages_content'[k] # current_spread_pages_content[k]
                               => current_spread_pages_content'[k].texts[
                                      Len(current_spread_pages_content'[k].texts)].content
                                  = story_cache'[story_id]
      ]_vars

\* In the second spread a frame on a story without file was visited: no
\* file was looked up and the cache still holds the empty text for it,
\* next to the text of a story that was read.
C19_Witness ==
    /\ InWalk /\ last_visit # <<>>
    /\ sheet_idx = 2
    /\ CurrentSheet.nodes[last_visit[1].node].ParentStory = "s4"
    /\ last_visit[1].assigned_page_id # None
    /\ last_visit[1].story_read = None
    /\ "s4" \in DOMAIN story_cache /\ story_cache["s4"] = ""
    /\ "s2" \in DOMAIN story_cache /\ story_cache["s2"] # ""

\* The corners of the local bounds (y1, x1, y2, x2) under matrix.
MovedCorners(bounds, matrix) ==
    {apply_transform_to_point(x, y, matrix) : x \in {bounds[2], bounds[4]},
                                               y \in {bounds[1], bounds[3]}}

\* C20: for an element with non-zero local bounds the point given to the
\* page assignment is the midpoint of the box of its four moved corners
\* and that box is what an item appended by the call records; for an
\* element with all-zero bounds the point is (tx, ty) of its global
\* transform and the recorded box is the all-zero one; for a Group with
\* all-zero bounds the point is the same when the box is computed from
\* the four (coinciding) corners, as extract_box.py does.
C20_AssignmentPoint ==
    [][ (pc = "walk" /\ last_visit' # <<>>) =>
          LET v == last_visit'[1]
              b == v.determined_local_bounds
              g == v.item_global_matrix
          IN  /\ b # <<0, 0, 0, 0>> =>
                    /\ IsBoxOf(v.item_global_aabb, MovedCorners(b, g))
                    /\ v.center = << v.item_global_aabb.x1 + v.item_global_aabb.x2,
                                     v.item_global_aabb.y1 + v.item_global_aabb.y2 >>
              /\ b = <<0, 0, 0, 0>> =>
                    /\ v.center = << 2 * g[5], 2 * g[6] >>
                    /\ v.item_global_aabb = [x1 |-> 0, y1 |-> 0, x2 |-> 0, y2 |-> 0]
              /\ (b = <<0, 0, 0, 0>> /\ v.tag = "Group") =>
                    extract_box_center(v.tag, b, g) = v.center
              /\ v.assigned_page_id
                    = find_page_for_item_center(v.center[1], v.center[2], geometric_pages)
              /\ \A k \in 1..Len(current_spread_pages_content) :
                    current_spread_pages_content'[k] # current_spread_pages_content[k] =>
                        LET items == IF v.tag = "Image"
                                     THEN current_spread_pages_content'[k].images
                                     ELSE current_spread_pages_content'[k].texts
                        IN  items[Len(items)].global_bounds = v.item_global_aabb
      ]_vars

\* An image without any bounds, moved away from the origin under a
\* scaling spread base, was recorded with the all-zero box on the page
\* that holds (tx, ty), after a Group without bounds was visited.
C20_Witness ==
    /\ InWalk /\ last_visit # <<>>
    /\ LET v == last_visit[1]
       IN  /\ v.tag = "Image"
           /\ v.determined_local_bounds = <<0, 0, 0, 0>>
           /\ v.item_global_matrix[5] # 0
           /\ v.assigned_page_id # None
           /\ \E k \in 1..Len(current_spread_pages_content) :
                 LET images == current_spread_pages_content[k].images
                 IN  /\ images # <<>>
                     /\ images[Len(images)].image_element_id = v.element_id
                     /\ images[Len(images)].global_bounds = ZeroAABB
    /\ \E n \in 1..Len(CurrentSheet.nodes) :
          CurrentSheet.nodes[n].tag = "Group" /\ CurrentSheet.nodes[n].GeometricBounds = <<>>

\* ---------------------------------------------------------------------
\* Properties of the local bounds
\* ---------------------------------------------------------------------
\* The bounds the three variants are said to share: GraphicBounds as
\* (Top, Left, Bottom, Right) when present and not all zero, else the
\* GeometricBounds attribute when present, else all zero.
SharedImageBounds(element) ==
    LET g == element.GraphicBounds
        graphic == IF g # <<>> /\ \A i \in 1..4 : g[i].num
                   THEN <<g[2].val, g[1].val, g[4].val, g[3].val>>
                   ELSE <<0, 0, 0, 0>>
    IN  IF graphic # <<0, 0, 0, 0>> THEN graphic
        ELSE IF element.GeometricBounds # <<>>
             THEN parse_geometric_bounds(element.GeometricBounds)
             ELSE <<0, 0, 0, 0>>

\* C21: in extract_from_idml.py, test_box.py and extract_box.py alike,
\* resolving the local bounds of an Image does not raise and gives the
\* GraphicBounds when present and not all zero, else the GeometricBounds
\* attribute when present, else all zero.
C21_ImageBoundsInEveryVariant ==
    calc.op = "image_bounds" =>
        \A variant \in {calc.extract_from_idml, calc.test_box, calc.extract_box} :
            /\ ~variant.raised
            /\ variant.bounds = SharedImageBounds(calc.element)

\* The anchors of every PathPointArray of the element that are two
\* numbers, as points (x, y).
AllAnchors(element) ==
    LET arrays == element.PathPointArrays
        raw == UNION {{arrays[k][i] : i \in 1..Len(arrays[k])} : k \in 1..Len(arrays)}
    IN  {<<a[1].val, a[2].val>> : a \in {r \in raw : Len(r) = 2 /\ r[1].num /\ r[2].num}}

\* C22: the local bounds of a TextFrame are (min y, min x, max y, max x)
\* over the anchors of every path of its path geometry; without path
\* geometry they are the GeometricBounds attribute, and all zero when
\* that is absent too; the element's transform plays no part.
C22_TextFrameBoundsFromAllPaths ==
    calc.op = "text_frame_bounds" =>
        LET element == calc.element
            pts == AllAnchors(element)
        IN  /\ pts # {} =>
                  calc.bounds = << SetMin({p[2] : p \in pts}), SetMin({p[1] : p \in pts}),
                                   SetMax({p[2] : p \in pts}), SetMax({p[1] : p \in pts}) >>
            /\ element.PathPointArrays = <<>> =>
                  calc.bounds = (IF element.GeometricBounds # <<>>
                                 THEN parse_geometric_bounds(element.GeometricBounds)
                                 ELSE <<0, 0, 0, 0>>)

\* ---------------------------------------------------------------------
\* Properties of the recursion
\* ---------------------------------------------------------------------
\* Node n is a direct child of the Spread that is not a Page, a
\* FlattenerPreference or a Properties element, or a child of a Group,
\* Rectangle, Oval or Polygon that is itself reached.
RECURSIVE Reached(_, _)
Reached(sheet, n) ==
    LET up == ParentNode(sheet, n)
    IN  IF up = 0
        THEN /\ \E i \in 1..Len(sheet.children) : sheet.children[i] = n
             /\ sheet.nodes[n].tag \notin {"Page", "FlattenerPreference", "Properties"}
        ELSE /\ sheet.nodes[up].tag \in {"Group", "Rectangle", "Oval", "Polygon"}
             /\ Reached(sheet, up)

\* C23: the walk of a spread is called on the reached nodes and on no
\* other (nothing below a TextFrame, an Image or an element of an
\* unlisted kind, nothing at or below a top-level Page,
\* FlattenerPreference or Properties), on each of them once; when the
\* walk is over it has been called on all of them.
C23_WalkVisitsReachedOnce ==
    InWalk =>
        /\ \A i \in 1..Len(visited) : Reached(CurrentSheet, visited[i])
        /\ \A i \in 1..Len(visited), j \in 1..Len(visited) :
               visited[i] = visited[j] => i = j
        /\ last_visit # <<>> => last_visit[1].node = visited[Len(visited)]
        /\ pc = "merge" =>
               \A n \in 1..Len(CurrentSheet.nodes) :
                   Reached(CurrentSheet, n) => \E i \in 1..Len(visited) : visited[i] = n

\* The walk of a spread is over that has an image below an Oval and a
\* Polygon (visited), an element of an unlisted kind, a text frame and an
\* image that were visited while the images below them were not, and a
\* FlattenerPreference that was not visited.
C23_Witness ==
    /\ InWalk /\ pc = "merge"
    /\ LET nodes == CurrentSheet.nodes
           seen == {visited[i] : i \in 1..Len(visited)}
           Below(tag) == {n \in 1..Len(nodes) :
                             /\ ParentNode(CurrentSheet, n) # 0
                             /\ nodes[ParentNode(CurrentSheet, n)].tag = tag}
       IN  /\ \E n \in Below("Polygon") \cap seen : nodes[n].tag = "Image"
           /\ \A tag \in {"GraphicLine", "TextFrame", "Image", "FlattenerPreference"} :
                  /\ Below(tag) # {}
                  /\ Below(tag) \cap seen = {}
           /\ \E n \in seen : nodes[n].tag = "GraphicLine"
           /\ \E n \in seen : nodes[n].tag = "TextFrame" /\ nodes[n].children # <<>>
           /\ \E n \in seen : nodes[n].tag = "Image" /\ nodes[n].children # <<>>

\* C24: a call of the walk deeper than the ceiling is given up alone
\* (whatever ceiling the walk enforces, it is not above what the
\* interpreter allows): the element and what is below it add nothing to
\* the page content map, and the walk goes on with the calls still
\* pending for the rest of the spread.
C24_DepthCeilingAbortsSubtree ==
    [][ (pc = "walk" /\ stack # <<>> /\ Head(stack).depth > RecursionLimit) =>
            /\ pc' \in {"walk", "merge"}
            /\ stack' = Tail(stack)
            /\ current_spread_pages_content' = current_spread_pages_content
      ]_vars

\* ---------------------------------------------------------------------
\* Properties of the stored page geometry
\* ---------------------------------------------------------------------
\* The geometry of page pid as the spread file at position j computes
\* it (from its first Page element with that id).
GeometryIn(j, pid) ==
    LET sheet == idml.spread_files[j]
        page_el == PagesWithSelf(sheet)[SetMin(PagesNamed(sheet, pid))]
    IN  PageGeometricInfo(pid,
                          IF page_el.Name = None THEN "UnkPage_" \o pid ELSE page_el.Name,
                          page_el.ItemTransform, page_el.GeometricBounds,
                          parse_transform_matrix(sheet.ItemTransform))

\* The positions of the spread files that hold a Page with the id pid.
SheetsWith(pid) ==
    {j \in 1..Len(idml.spread_files) : PagesNamed(idml.spread_files[j], pid) # {}}

\* C25: every page id of the document map has its geometry stored, the
\* stored geometry of a page id is the one computed by the first spread
\* file in processing order that holds the id, and the output is built
\* without a page lacking geometry.
C25_GeometryStoredFirstWins ==
    /\ \A k \in 1..Len(all_page_data_by_id) :
           all_page_data_by_id[k].pid \in DOMAIN all_page_geometries
    /\ \A pid \in DOMAIN all_page_geometries :
           /\ SheetsWith(pid) # {}
           /\ all_page_geometries[pid] = GeometryIn(SetMin(SheetsWith(pid)), pid)
    /\ \A k \in 1..Len(output_data) :
           output_data[k].page_id \in DOMAIN all_page_geometries

\* Two spread files that compute different geometry for one page id
\* have been merged and the output is built.
C25_Witness ==
    /\ Len(idml.spread_files) = 2
    /\ output_data # <<>>
    /\ \E pid \in DOMAIN all_page_geometries :
          /\ SheetsWith(pid) = {1, 2}
          /\ GeometryIn(1, pid).global_aabb # GeometryIn(2, pid).global_aabb
          /\ \E k \in 1..Len(output_data) :
                output_data[k].page_id = pid /\ output_data[k].images # <<>>

\* C26: the Bounds of every emitted item are its global bounds minus the
\* origin of its page's box as computed in the spread file that added
\* the item, and the item carries the width and height of that box, also
\* when an earlier spread file declared the page id with another box.
C26_RelativeToOwnSheetGeometry ==
    Emitted =>
        \A o \in 1..Len(output_data) :
            LET out == output_data[o]
                k == IndexOf(all_page_data_by_id, out.page_id)
                pdata == all_page_data_by_id[k]
                ok(item, b, j) ==
                    LET g == GeometryIn(j, out.page_id).global_aabb
                    IN  /\ item.Bounds.x1 = b.x1 - g.x1 /\ item.Bounds.x2 = b.x2 - g.x1
                        /\ item.Bounds.y1 = b.y1 - g.y1 /\ item.Bounds.y2 = b.y2 - g.y1
                        /\ item.page_width = g.x2 - g.x1
                        /\ item.page_height = g.y2 - g.y1
            IN  /\ \A i \in 1..Len(out.images) :
                       ok(out.images[i], pdata.images[i].global_bounds, found_in[k].images[i])
                /\ \A i \in 1..Len(out.texts) :
                       ok(out.texts[i], pdata.texts[i].global_bounds, found_in[k].texts[i])

\* ---------------------------------------------------------------------
\* Properties of the emitted bounds
\* ---------------------------------------------------------------------
\* Twice the midpoint of the emitted Bounds lies within the page size
\* the item carries.
MidpointInPage(item) ==
    /\ 0 <= item.Bounds.x1 + item.Bounds.x2
    /\ item.Bounds.x1 + item.Bounds.x2 <= 2 * item.page_width
    /\ 0 <= item.Bounds.y1 + item.Bounds.y2
    /\ item.Bounds.y1 + item.Bounds.y2 <= 2 * item.page_height

SingleSheetOutput == Emitted /\ Len(idml.spread_files) = 1

GeometryOf(sheet) ==
    LET pages == PagesWithSelf(sheet)
        base == parse_transform_matrix(sheet.ItemTransform)
    IN  [i \in 1..Len(pages) |->
            PageGeometricInfo(pages[i].Self,
                              IF pages[i].Name = None THEN "UnkPage_" \o pages[i].Self
                              ELSE pages[i].Name,
                              pages[i].ItemTransform, pages[i].GeometricBounds, base)]

\* The spread file contributes to the document map.
Contributes(sheet) ==
    sheet.wellformed /\ HasPageChild(sheet) /\ PagesWithSelf(sheet) # <<>>

\* The page the element at node n of the spread file is assigned to.
PageOfNode(sheet, n) ==
    VisitLocals(sheet.nodes[n], ChainProduct(sheet, ParentNode(sheet, n)),
                GeometryOf(sheet)).assigned_page_id

\* The page ids, and per page id the image keys and the text frame ids,
\* that the spread file holds by itself.
PageIdsIn(sheet) ==
    IF Contributes(sheet)
    THEN {PagesWithSelf(sheet)[i].Self : i \in 1..Len(PagesWithSelf(sheet))}
    ELSE {}

ImageKeysIn(sheet, pid) ==
    IF ~Contributes(sheet) THEN {}
    ELSE {<<sheet.nodes[n].Link, ElementId(sheet.nodes[n])>> :
            n \in {m \in DOMAIN sheet.nodes :
                     /\ sheet.nodes[m].tag = "Image"
                     /\ Reached(sheet, m)
                     /\ sheet.nodes[m].Link \notin {None, ""}
                     /\ PageOfNode(sheet, m) = pid}}

TextIdsIn(sheet, pid) ==
    IF ~Contributes(sheet) THEN {}
    ELSE {ElementId(sheet.nodes[n]) :
            n \in {m \in DOMAIN sheet.nodes :
                     /\ sheet.nodes[m].tag = "TextFrame"
                     /\ Reached(sheet, m)
                     /\ sheet.nodes[m].ParentStory \notin {None, ""}
                     /\ ResolvedText(sheet.nodes[m].ParentStory) # ""
                     /\ PageOfNode(sheet, m) = pid}}

\* The members of a document map.
PageIdsOfMap(all_data) == {all_data[k].pid : k \in 1..Len(all_data)}

ImageKeysOfMap(all_data, pid) ==
    UNION {{<<all_data[k].images[i].uri, all_data[k].images[i].image_element_id>> :
               i \in 1..Len(all_data[k].images)} :
           k \in {j \in 1..Len(all_data) : all_data[j].pid = pid}}

TextIdsOfMap(all_data, pid) ==
    UNION {{all_data[k].texts[i].text_frame_id : i \in 1..Len(all_data[k].texts)} :
           k \in {j \in 1..Len(all_data) : all_data[j].pid = pid}}

SheetSet == {idml.spread_files[j] : j \in 1..Len(idml.spread_files)}

\* C28: when every spread file has been merged, the page ids of the
\* document map, and for each page id its image keys (uri, element id)
\* and its text frame ids, are the unions over the set of spread files of
\* what each file holds by itself; they are the same for every order in
\* which the same files are processed.
C28_MembershipFromSheetSet ==
    Emitted =>
        /\ PageIdsOfMap(all_page_data_by_id) = UNION {PageIdsIn(s) : s \in SheetSet}
        /\ \A pid \in PageIdsOfMap(all_page_data_by_id) :
              /\ ImageKeysOfMap(all_page_data_by_id, pid)
                     = UNION {ImageKeysIn(s, pid) : s \in SheetSet}
              /\ TextIdsOfMap(all_page_data_by_id, pid)
                     = UNION {TextIdsIn(s, pid) : s \in SheetSet}

\* Two spread files were merged, the later-named one first; they share
\* a page id under two names and geometries, an image key and a text
\* frame id on it, the first holds an image of that page the second has
\* not, and each holds a page id the other has not.
C28_Witness ==
    /\ Emitted
    /\ idml.spread_files = <<SheetB(<<>>), SheetA(<<>>)>>
    /\ LET k == IndexOf(all_page_data_by_id, "P1")
       IN  /\ all_page_data_by_id[k].name = "1b"
           /\ ImageKeysIn(SheetA(<<>>), "P1") \cap ImageKeysIn(SheetB(<<>>), "P1") # {}
           /\ PageIdsIn(SheetA(<<>>)) \ PageIdsIn(SheetB(<<>>)) # {}
           /\ PageIdsIn(SheetB(<<>>)) \ PageIdsIn(SheetA(<<>>)) # {}
           /\ ImageKeysIn(SheetB(<<>>), "P1") \ ImageKeysIn(SheetA(<<>>), "P1") # {}
           /\ TextIdsIn(SheetA(<<>>), "P1") \cap TextIdsIn(SheetB(<<>>), "P1") # {}
           /\ Len(all_page_data_by_id[k].images) = 2


\* ---------------------------------------------------------------------
\* Properties of test_box.py against extract_from_idml.py
\* ---------------------------------------------------------------------
IdentityBase(sheet) == parse_transform_matrix(sheet.ItemTransform) = Identity

\* C29: on a spread file whose base transform is the identity, the
\* page content map test_box.py builds is the one extract_from_idml.py
\* builds (same page ids, names, items and recorded global bounds, in the
\* same order), after every call of the walk and when the walk is over.
C29_TestBoxAgreesUnderIdentityBase ==
    (sheet_idx > 0 /\ pc \in {"walk", "merge"} /\ IdentityBase(CurrentSheet)) =>
        test_box_run.current_spread_pages_content = current_spread_pages_content

\* The walk of a spread file with the identity base is over; two of its
\* pages have their own transforms, and the two maps hold the same
\* images and texts on the first and an image on the other.
C29_Witness ==
    /\ sheet_idx > 0 /\ pc = "merge" /\ returned = "pair"
    /\ IdentityBase(CurrentSheet)
    /\ Len(geometric_pages) = 2
    /\ \A i \in 1..2 : geometric_pages[i].global_matrix # Identity
    /\ test_box_run.current_spread_pages_content = current_spread_pages_content
    /\ Len(test_box_run.current_spread_pages_content) = 2
    /\ test_box_run.current_spread_pages_content[1].images # <<>>
    /\ test_box_run.current_spread_pages_content[1].texts # <<>>
    /\ test_box_run.current_spread_pages_content[2].images # <<>>


\* ---------------------------------------------------------------------
\* Properties of the page assignment within a container
\* ---------------------------------------------------------------------
\* The centre (in half units) of the element at node n, from its own
\* bounds and the transforms of its chain.
OwnCenter(sheet, n) ==
    LET m == ChainProduct(sheet, n)
        b == determined_local_bounds(sheet.nodes[n])
    IN  IF b # ZeroBounds
        THEN get_item_center(get_axis_aligned_bounding_box(get_global_corners(b, m)))
        ELSE <<2 * m[5], 2 * m[6]>>

\* The images of the page pid in a page content map, by element id.
ImagesOn(content, pid, element_id) ==
    {i \in 1..Len(content[IndexOf(content, pid)].images) :
        content[IndexOf(content, pid)].images[i].image_element_id = element_id}

\* C30: during the walk of a spread file the page list is the one built
\* from the file's Page elements and no step changes it; every call
\* assigns the element the first page of that list holding the element's
\* own centre, whatever page (or none) its container was assigned, and
\* an item is added to the list of that page only.
C30_AssignedByOwnCenter ==
    [][ pc = "walk" =>
          /\ geometric_pages' = geometric_pages
          /\ geometric_pages = GeometryOf(CurrentSheet)
          /\ visited' # visited =>
                LET v == last_visit'[1]
                    own == OwnCenter(CurrentSheet, v.node)
                IN  /\ v.center = own
                    /\ v.assigned_page_id
                           = find_page_for_item_center(own[1], own[2], GeometryOf(CurrentSheet))
                    /\ \A k \in 1..Len(current_spread_pages_content) :
                          current_spread_pages_content'[k] # current_spread_pages_content[k]
                              => current_spread_pages_content[k].pid = v.assigned_page_id ]_vars

\* The walk is over: the image of a group that has no page is on the
\* first page, the image of a rectangle of the first page is on the
\* second page, and the other image of that rectangle is on no page.
C30_Witness ==
    /\ InWalk /\ pc = "merge"
    /\ CurrentSheet = SheetOffset
    /\ PageOfNode(SheetOffset, 7) = None
    /\ ImagesOn(current_spread_pages_content, "PO", "imBack") # {}
    /\ PageOfNode(SheetOffset, 9) = "PO"
    /\ ImagesOn(current_spread_pages_content, "PO2", "imNext") # {}
    /\ ImagesOn(current_spread_pages_content, "PO", "imNext") = {}
    /\ ImagesOn(current_spread_pages_content, "PO", "imAway") = {}
    /\ ImagesOn(current_spread_pages_content, "PO2", "imAway") = {}
    /\ Len(geometric_pages) = 2

====
